---- MODULE Spec2Model ----
(***************************************************************************)
(* Verification model of the Cerebro Companion Client vault core:          *)
(* crypto/passphrase.py, crypto/key_manager.py, crypto/vault.py,           *)
(* crypto/hoeilaart_vault.py, auth.py and the request handlers of main.py. *)
(*                                                                         *)
(* Cryptographic primitives are modelled symbolically: a derived key       *)
(* names the passphrase and salt it was derived from, an AES-GCM           *)
(* ciphertext names the key, nonce and plaintext it was made from, a       *)
(* wrapped key names the wrapping key and the key inside, and decryption   *)
(* or unwrapping succeeds only for an unaltered value under the same key   *)
(* (and nonce).  The random draws of the KeyManager, the caches and the    *)
(* HoeilaartVault are nondeterministic choices from small sets; those of   *)
(* the VaultEncryptor come from a source that never repeats a value.       *)
(***************************************************************************)
EXTENDS Integers, Sequences, FiniteSets, TLC

\* ------------------------------------------------------------- bounds
\* Number of distinct 16-byte salts os.urandom can return in the model.
NumSalts == 2
\* Number of distinct 12-byte nonces os.urandom can return in the model.
NumNonces == 2
\* Number of distinct X25519 private keys generate() can return.
NumKeys == 2
\* Lock/unlock cycles counted by the history variable cycles.
MaxCycles == 2
\* External alterations of the private-key record in SpecTamper.
MaxTamper == 1
\* encrypt_mapping calls made, each taking three values of the random source.
MaxVaults == 2
\* Members of a held EncryptedVault that are altered before it is decrypted.
MaxAlter == 1
\* Length of the record lists given to HoeilaartVault.setup.
MaxRecords == 2
\* Length of the record lists held by the files given to decrypt_original_file.
MaxFileRecords == 1
\* Number of pseudonymous patient identifiers the pipeline can produce.
NumPatients == 2
\* Length of the id lists given to HoeilaartVault.resolve_batch.
MaxBatch == 2
\* Key requests that can be in flight together.
MaxRequests == 2
\* Callers of check_for_updates that can be in flight together.
MaxCallers == 2
\* Encryptions under passphrase-derived keys made in one run.
MaxEncryptions == 3

\* ------------------------------------------------------------- program constants
SALT_LEN == 16
HASH_LEN == 32
NONCE_LEN == 12
DEK_LEN == 32

\* ------------------------------------------------------------- values
\* Python's Optional[T]: None is the empty tuple, a value x is <<x>>.
None == <<>>
Some(x) == <<x>>

\* Passphrases a caller can supply.
Passphrases == {"CorrectHorseBatteryStaple", "Tr0ub4dor&3xyz"}

\* os.urandom(n): n random bytes, identified by a small integer.
RandomBytes(n, i) == [len |-> n, id |-> i]
Salts == {RandomBytes(SALT_LEN, i) : i \in 1..NumSalts}
Nonces == {RandomBytes(NONCE_LEN, i) : i \in 1..NumNonces}

\* Keys a caller can hand to LocalVaultCache: every derivable key.
DerivedKeys == {[len |-> HASH_LEN, pass |-> p, salt |-> s] : p \in Passphrases, s \in Salts}

\* A mapping: a function from a set of pseudonymous ids to identity records.
PseudoIds == 1..NumPatients
IdentityRecord(i) == [original_id |-> i]
MappingOf(ids) == [i \in ids |-> IdentityRecord(i)]
Mappings == {MappingOf(ids) : ids \in SUBSET PseudoIds}
EmptyMapping == MappingOf({})
\* dict.update(other)
DictUpdate(m, other) ==
    [i \in (DOMAIN m) \cup (DOMAIN other) |-> IF i \in DOMAIN other THEN other[i] ELSE m[i]]

\* X25519 private keys, identified by a small integer.
PrivateKeys == 1..NumKeys
\* Peer public keys offered to the key exchange; 0 is a low-order point,
\* for which the exchange yields the all-zero secret and is refused.
PeerKeys == 0..NumKeys

\* X25519PrivateKey.public_key()
PublicKey(priv) == [pub |-> priv]
\* public_bytes(Encoding.PEM, SubjectPublicKeyInfo)
PublicBytesPem(pubkey) == [pem |-> pubkey]
\* public_bytes(Encoding.Raw, Raw): the 32-byte u-coordinate; msb is the top
\* bit of the last byte, which an encoded key never sets.
PublicBytesRaw(pubkey) == [len |-> 32, id |-> pubkey.pub, msb |-> 0]
\* X25519PublicKey.from_public_bytes: raises unless given 32 bytes.  X25519
\* masks the top bit of the last byte when it decodes the u-coordinate
\* (RFC 7748, section 5), so two encodings that differ in that bit only are
\* the same public key.
FromPublicBytesOk(raw) == raw.len = 32
FromPublicBytes(raw) == [pub |-> raw.id]
\* private_bytes(Encoding.Raw, Raw, NoEncryption())
PrivateBytesRaw(priv) == [len |-> 32, id |-> priv]
\* Mutant: the raw bytes are not read back as the key they came from.
FromPrivateBytes_other_key(raw) == (raw.id % NumKeys) + 1
\* X25519PrivateKey.from_private_bytes: raises unless given 32 bytes.
FromPrivateBytesOk(raw) == raw.len = 32
FromPrivateBytes(raw) == raw.id
\* X25519 exchange: the shared secret is the same for (a, pub(b)) and
\* (b, pub(a)); it raises for a low-order peer point.
ExchangeOk(peer) == peer # 0
Exchange(priv, peer) == {priv, peer}

\* ------------------------------------------------------------- passphrase.py
\* hash_secret_raw: Argon2id refuses salts shorter than 8 bytes.
Argon2SaltOk(salt) == salt.len >= 8
Argon2id(passphrase, salt) == [len |-> HASH_LEN, pass |-> passphrase, salt |-> salt]

\* Mutant: derive_key ignores the salt it is given and draws a fresh one.
DeriveKey_ignores_salt(passphrase, salt, fresh) ==
    [key |-> Argon2id(passphrase, fresh), salt |-> fresh]
\* Mutant: derive_key returns the salt it was given with a key derived from
\* a fresh one.
DeriveKey_key_from_fresh(passphrase, salt, fresh) ==
    LET used == IF salt = None THEN fresh ELSE salt[1]
    IN  [key |-> Argon2id(passphrase, fresh), salt |-> used]
\* PassphraseDeriver.derive_key(passphrase, salt=None); fresh is the value
\* os.urandom(SALT_LEN) returns when salt is None.
DeriveKey(passphrase, salt, fresh) ==
    LET used == IF salt = None THEN fresh ELSE salt[1]
    IN  [key |-> Argon2id(passphrase, used), salt |-> used]

\* Salts a caller can supply to derive_key: those os.urandom can return, the
\* all-zero 16-byte salt (id 0) and a 4-byte one.
SuppliedSalts == Salts \cup {RandomBytes(SALT_LEN, 0), RandomBytes(4, 0)}

\* ------------------------------------------------------------- AES-256-GCM
\* AESGCM(key).encrypt(nonce, plaintext, None)
AesGcmEncrypt(key, nonce, plaintext) ==
    [key |-> key, nonce |-> nonce, pt |-> plaintext, intact |-> TRUE]
\* AESGCM(key).decrypt(nonce, ciphertext, None) raises InvalidTag unless the
\* ciphertext is unaltered and was made under this key and nonce, and
\* ValueError for a nonce of invalid length.
AesGcmDecryptOk(key, nonce, ciphertext) ==
    /\ nonce.len >= 8
    /\ ciphertext.intact
    /\ ciphertext.key = key
    /\ ciphertext.nonce = nonce
AesGcmDecrypt(key, nonce, ciphertext) == ciphertext.pt

\* ------------------------------------------------------------- base64 / json
\* A JSON string member holding base64 text: form "ok" decodes to b64,
\* "badpad" is text base64.b64decode rejects, "missing" is an absent member.
B64Encode(bytes) == [form |-> "ok", b64 |-> bytes]
B64DecodeOk(text) == text.form = "ok"
B64Decode(text) == text.b64
\* json.dumps / json.loads of a file: wellformed is FALSE for text that is
\* not JSON.
JsonDumps(obj) == [wellformed |-> TRUE, obj |-> obj]
JsonLoadsOk(text) == text.wellformed
JsonLoads(text) == text.obj
HasMember(obj, names) == \A n \in names : obj[n].form # "missing"

\* ------------------------------------------------------------- state
VARIABLES
    unlocked_private_key,   \* KeyManager._unlocked_private_key
    public_key_file,        \* contents of public_key.pem, None when absent
    private_key_file,       \* contents of private_key.enc, None when absent
    cache_file,             \* contents of mapping_cache.enc, None when absent
    jwt_file,               \* contents of jwt.enc, None when absent
    session,                \* AuthManager._session
    encryption_key,         \* AuthManager._encryption_key
    passphrase_key,         \* AppState._passphrase_key
    current_mappings,       \* AppState.current_mappings
    upload,                 \* the upload request in flight, None when there is none
    last,                   \* the last operation and what it returned
    gen,                    \* history: what the last generate_keypair made
    cycles,                 \* history: lock/unlock cycles completed
    tampered,               \* history: external alterations made
    fresh_salt_used,        \* history: a cache key was derived from a fresh salt
    vaults,                 \* history: every encrypt_mapping call, in order
    held,                   \* the EncryptedVault a caller holds, None when none
    urandom,                \* number of values the random source has produced
    saving,                 \* a LocalVaultCache.save under way, None when none
    crashed,                \* history: the call a crash interrupted
    mapping_file,           \* HoeilaartVault.mapping_path contents, None when absent
    setup_flag_file,        \* HoeilaartVault.setup_flag_path contents, None when absent
    cached_mappings,        \* HoeilaartVault._cached_mappings
    hv_setup,               \* history: what the last HoeilaartVault.setup was given
    shutdown_requested,     \* main.py's global _shutdown_requested
    shutdown_task,          \* the delayed_shutdown task scheduled, None when none
    exited,                 \* how the process ended, None while it runs
    requests,               \* the key requests in flight, by request slot
    deriving,               \* the request whose handler occupies the event loop
    update_checker,         \* AppState.update_checker, None before startup
    checks,                 \* the check_for_updates calls in flight, by caller
    encryptions             \* history: key and nonce of every encryption made

vars == <<unlocked_private_key, public_key_file, private_key_file,
          cache_file, jwt_file, session, encryption_key,
          passphrase_key, current_mappings, upload,
          last, gen, cycles, tampered, fresh_salt_used,
          vaults, held, urandom, saving, crashed,
          mapping_file, setup_flag_file, cached_mappings, hv_setup,
          shutdown_requested, shutdown_task, exited,
          requests, deriving, update_checker, checks, encryptions>>

kmVars == <<unlocked_private_key, public_key_file, private_key_file>>
keyFiles == <<public_key_file, private_key_file>>
authVars == <<session, encryption_key, jwt_file>>
appVars == <<passphrase_key, current_mappings, upload>>
histVars == <<gen, cycles, tampered, fresh_salt_used>>
\* Everything outside the KeyManager.
notKm == <<cache_file, authVars, appVars>>
vaultVars == <<vaults, held, urandom>>
crashVars == <<saving, crashed>>
hvVars == <<mapping_file, setup_flag_file, cached_mappings, hv_setup>>
procVars == <<shutdown_requested, shutdown_task, exited>>
concVars == <<requests, deriving>>
updVars == <<update_checker, checks>>
nonceVars == <<encryptions>>
laterVars == <<concVars, updVars, nonceVars>>
\* The state of VaultEncryptor's callers, of a save under way, of the
\* HoeilaartVault and of the process.
extVars == <<vaultVars, crashVars, hvVars, procVars, laterVars>>
\* The same without the requests in flight.
syncVars == <<vaultVars, crashVars, hvVars, procVars, updVars, nonceVars>>

\* What an operation returned or raised.
RetNone == [kind |-> "none", val |-> <<>>]
RetBool(b) == [kind |-> "bool", val |-> <<b>>]
RetRaise(exc) == [kind |-> "raise", val |-> <<exc>>]
RetValue(kind, v) == [kind |-> kind, val |-> <<v>>]
\* arg is the passphrase an operation was given, "" when it takes none.
Returned(op, arg, ret) == last' = [op |-> op, arg |-> arg, data |-> <<>>, ret |-> ret]
\* The same for an operation given data besides a passphrase.
ReturnedFor(op, arg, data, ret) ==
    last' = [op |-> op, arg |-> arg, data |-> <<data>>, ret |-> ret]
IsBool(ret, b) == ret.kind = "bool" /\ ret.val = <<b>>
IsRaise(ret, exc) == ret.kind = "raise" /\ ret.val = <<exc>>

\* ------------------------------------------------------------- KeyManager
\* KeyManager.has_keys
has_keys == public_key_file # None /\ private_key_file # None
\* KeyManager.is_unlocked
is_unlocked == unlocked_private_key # None

\* The record generate_keypair stores in private_key.enc.
EncryptedData(salt, nonce, ciphertext) ==
    [salt |-> B64Encode(salt), nonce |-> B64Encode(nonce),
     ciphertext |-> B64Encode(ciphertext)]

\* KeyManager.generate_keypair(passphrase); private_key, fresh and nonce are
\* the random draws of X25519PrivateKey.generate, derive_key and os.urandom.
generate_keypair(passphrase, private_key, fresh, nonce) ==
    LET public_key == PublicKey(private_key)
        public_key_pem == PublicBytesPem(public_key)
        private_key_raw == PrivateBytesRaw(private_key)
        derived == DeriveKey(passphrase, None, fresh)
        ciphertext == AesGcmEncrypt(derived.key, nonce, private_key_raw)
        text == JsonDumps(EncryptedData(derived.salt, nonce, ciphertext))
    IN  /\ public_key_file' = Some(public_key_pem)
        /\ private_key_file' = Some(text)
        /\ unlocked_private_key' = Some(private_key)
        /\ gen' = Some([passphrase |-> passphrase, private_key |-> private_key,
                        salt |-> derived.salt, text |-> text])
        /\ cycles' = 0

\* The body of unlock's try block: [ok, key]; ok is FALSE when any step
\* raises (json.loads, a missing member, b64decode, Argon2, AES-GCM,
\* from_private_bytes).
TryUnlock(text, passphrase) ==
    LET failed == [ok |-> FALSE, key |-> 0]
    IN  IF ~JsonLoadsOk(text) THEN failed
        ELSE LET encrypted_data == JsonLoads(text)
             IN  IF ~HasMember(encrypted_data, {"salt", "nonce", "ciphertext"})
                 THEN failed
                 ELSE IF ~(/\ B64DecodeOk(encrypted_data.salt)
                           /\ B64DecodeOk(encrypted_data.nonce)
                           /\ B64DecodeOk(encrypted_data.ciphertext))
                 THEN failed
                 ELSE LET salt == B64Decode(encrypted_data.salt)
                          nonce == B64Decode(encrypted_data.nonce)
                          ciphertext == B64Decode(encrypted_data.ciphertext)
                      IN  IF ~Argon2SaltOk(salt) THEN failed
                          ELSE LET derived_key == DeriveKey(passphrase, Some(salt), salt).key
                               IN  IF ~AesGcmDecryptOk(derived_key, nonce, ciphertext)
                                   THEN failed
                                   ELSE LET private_key_raw ==
                                                AesGcmDecrypt(derived_key, nonce, ciphertext)
                                        IN  IF ~FromPrivateBytesOk(private_key_raw)
                                            THEN failed
                                            ELSE [ok |-> TRUE,
                                                  key |-> FromPrivateBytes(private_key_raw)]

\* Mutant: a decryption failure propagates instead of returning False.
UnlockReturn_propagates(passphrase) ==
    IF ~has_keys THEN RetRaise("ValueError")
    ELSE IF TryUnlock(private_key_file[1], passphrase).ok THEN RetBool(TRUE)
    ELSE RetRaise("InvalidTag")
\* Mutant: missing keys are reported like a wrong passphrase.
UnlockReturn_false_without_keys(passphrase) ==
    RetBool(has_keys /\ TryUnlock(private_key_file[1], passphrase).ok)
\* KeyManager.unlock(passphrase): what it returns or raises.
UnlockReturn(passphrase) ==
    IF ~has_keys THEN RetRaise("ValueError")
    ELSE RetBool(TryUnlock(private_key_file[1], passphrase).ok)

\* Mutant: unlock does not keep the key it decrypted.
unlock_drops_key(passphrase) == UNCHANGED <<kmVars, gen, cycles>>
\* Mutant: unlock clears the held key before it tries, so a failure locks.
unlock_clears_first(passphrase) ==
    IF has_keys /\ TryUnlock(private_key_file[1], passphrase).ok
    THEN /\ unlocked_private_key' = Some(TryUnlock(private_key_file[1], passphrase).key)
         /\ cycles' = IF ~is_unlocked /\ cycles < MaxCycles THEN cycles + 1 ELSE cycles
         /\ UNCHANGED <<keyFiles, gen>>
    ELSE /\ unlocked_private_key' = None
         /\ UNCHANGED <<keyFiles, gen, cycles>>
\* KeyManager.unlock(passphrase): its effect on the KeyManager.
unlock(passphrase) ==
    IF has_keys /\ TryUnlock(private_key_file[1], passphrase).ok
    THEN /\ unlocked_private_key' = Some(TryUnlock(private_key_file[1], passphrase).key)
         /\ cycles' = IF ~is_unlocked /\ cycles < MaxCycles THEN cycles + 1 ELSE cycles
         /\ UNCHANGED <<keyFiles, gen>>
    ELSE UNCHANGED <<kmVars, gen, cycles>>

\* Mutant: lock also removes the stored private-key record.
lock_removes_record ==
    /\ unlocked_private_key' = None
    /\ private_key_file' = None
    /\ UNCHANGED <<public_key_file, gen, cycles>>
\* KeyManager.lock()
lock ==
    /\ unlocked_private_key' = None
    /\ UNCHANGED <<keyFiles, gen, cycles>>

\* Mutant: the nonce member is returned in place of the salt.
get_stored_salt_reads_nonce ==
    IF private_key_file = None THEN None
    ELSE Some(B64Decode(JsonLoads(private_key_file[1]).nonce))
\* KeyManager.get_stored_salt(): the value returned.
get_stored_salt ==
    IF private_key_file = None THEN None
    ELSE LET text == private_key_file[1]
         IN  IF ~JsonLoadsOk(text) THEN None
             ELSE IF ~HasMember(JsonLoads(text), {"salt"}) THEN None
             ELSE IF ~B64DecodeOk(JsonLoads(text).salt) THEN None
             ELSE Some(B64Decode(JsonLoads(text).salt))

\* Mutant: the guard tests has_keys, so a locked manager fails on the
\* missing key object instead of raising the not-unlocked ValueError.
perform_key_exchange_wrong_guard(peer) ==
    IF ~has_keys THEN RetRaise("ValueError")
    ELSE IF ~is_unlocked THEN RetRaise("AttributeError")
    ELSE IF ~ExchangeOk(peer) THEN RetRaise("ValueError")
    ELSE RetValue("secret", Exchange(unlocked_private_key[1], peer))
\* KeyManager.perform_key_exchange(peer_public_key): what it returns or raises.
perform_key_exchange(peer) ==
    IF ~is_unlocked THEN RetRaise("ValueError")
    ELSE IF ~ExchangeOk(peer) THEN RetRaise("ValueError")
    ELSE RetValue("secret", Exchange(unlocked_private_key[1], peer))

\* ------------------------------------------------------------- LocalVaultCache
\* Mutant: the nonce stored with the ciphertext is not the one encrypted under.
save_stores_other_nonce(mapping, key, nonce) ==
    LET ciphertext == AesGcmEncrypt(key, nonce, JsonDumps(mapping))
        cache_data == [nonce |-> B64Encode(RandomBytes(NONCE_LEN, 0)),
                       ciphertext |-> B64Encode(ciphertext)]
    IN  cache_file' = Some(JsonDumps(cache_data))
\* Mutant: save stores the JSON text of the mapping itself.
save_plaintext(mapping, key, nonce) ==
    LET plaintext == JsonDumps(mapping)
        cache_data == [nonce |-> B64Encode(nonce), ciphertext |-> B64Encode(plaintext)]
    IN  cache_file' = Some(JsonDumps(cache_data))
\* Mutant: save encrypts under the nonce of the cache it overwrites.
save_reuses_stored_nonce(mapping, key, nonce) ==
    LET used == IF cache_file = None THEN nonce
                ELSE B64Decode(JsonLoads(cache_file[1]).nonce)
        ciphertext == AesGcmEncrypt(key, used, JsonDumps(mapping))
        cache_data == [nonce |-> B64Encode(used), ciphertext |-> B64Encode(ciphertext)]
    IN  cache_file' = Some(JsonDumps(cache_data))
\* LocalVaultCache.save(mapping, encryption_key); nonce is os.urandom's draw.
save(mapping, key, nonce) ==
    LET plaintext == JsonDumps(mapping)
        ciphertext == AesGcmEncrypt(key, nonce, plaintext)
        cache_data == [nonce |-> B64Encode(nonce), ciphertext |-> B64Encode(ciphertext)]
    IN  cache_file' = Some(JsonDumps(cache_data))

\* Mutant: a file that cannot be read yields an empty mapping.
load_returns_empty(key) ==
    IF cache_file = None THEN None
    ELSE LET text == cache_file[1]
             cache_data == JsonLoads(text)
         IN  IF /\ JsonLoadsOk(text)
                /\ HasMember(cache_data, {"nonce", "ciphertext"})
                /\ B64DecodeOk(cache_data.nonce) /\ B64DecodeOk(cache_data.ciphertext)
                /\ AesGcmDecryptOk(key, B64Decode(cache_data.nonce),
                                   B64Decode(cache_data.ciphertext))
             THEN Some(JsonLoads(AesGcmDecrypt(key, B64Decode(cache_data.nonce),
                                               B64Decode(cache_data.ciphertext))))
             ELSE Some(EmptyMapping)
\* LocalVaultCache.load(encryption_key): the mapping, or None.
load(key) ==
    IF cache_file = None THEN None
    ELSE LET text == cache_file[1]
         IN  IF ~JsonLoadsOk(text) THEN None
             ELSE LET cache_data == JsonLoads(text)
                  IN  IF ~HasMember(cache_data, {"nonce", "ciphertext"}) THEN None
                      ELSE IF ~(B64DecodeOk(cache_data.nonce) /\ B64DecodeOk(cache_data.ciphertext))
                      THEN None
                      ELSE LET nonce == B64Decode(cache_data.nonce)
                               ciphertext == B64Decode(cache_data.ciphertext)
                           IN  IF ~AesGcmDecryptOk(key, nonce, ciphertext) THEN None
                               ELSE LET plaintext == AesGcmDecrypt(key, nonce, ciphertext)
                                    IN  IF ~JsonLoadsOk(plaintext) THEN None
                                        ELSE Some(JsonLoads(plaintext))

\* Mutant: clear leaves the file in place.
clear_keeps_file == UNCHANGED cache_file
\* LocalVaultCache.clear()
clear == cache_file' = None

\* ------------------------------------------------------------- AuthManager
\* The session a successful login creates.
UserSession == [username |-> "user", access_token |-> "jwt"]

\* AuthManager.set_encryption_key(key)
set_encryption_key(key) == encryption_key' = Some(key)

\* AuthManager._save_jwt() for the session sess; nonce is os.urandom's draw.
SaveJwt(sess, nonce) ==
    IF encryption_key = None \/ sess = None
    THEN UNCHANGED jwt_file
    ELSE LET plaintext == JsonDumps(sess[1])
             ciphertext == AesGcmEncrypt(encryption_key[1], nonce, plaintext)
             storage_data == [nonce |-> B64Encode(nonce), ciphertext |-> B64Encode(ciphertext)]
         IN  jwt_file' = Some(JsonDumps(storage_data))

\* AuthManager.login(username, password); ok is whether the cloud answered 200.
login(ok, nonce) ==
    IF ok
    THEN /\ session' = Some(UserSession)
         /\ SaveJwt(Some(UserSession), nonce)
         /\ UNCHANGED encryption_key
    ELSE UNCHANGED authVars

\* AuthManager.logout()
logout ==
    /\ session' = None
    /\ jwt_file' = None
    /\ UNCHANGED encryption_key

\* ------------------------------------------------------------- AppState
\* AppState.save_mappings_locally(), for the mapping held after this step.
save_mappings_locally(mappings, nonce) ==
    IF passphrase_key # None /\ mappings # EmptyMapping
    THEN save(mappings, passphrase_key[1], nonce)
    ELSE UNCHANGED cache_file

\* AppState.load_mappings_locally() under the key held after this step:
\* the mapping it installs, None when it installs nothing.
LoadedLocally(key) ==
    IF key = None THEN None
    ELSE IF load(key[1]) = None THEN None
    ELSE IF load(key[1])[1] = EmptyMapping THEN None
    ELSE load(key[1])

\* AppState.clear_sensitive_data()
clear_sensitive_data ==
    /\ current_mappings' = EmptyMapping
    /\ passphrase_key' = None
    /\ lock

\* ------------------------------------------------------------- component calls
\* The operations of the components, called directly in any state.
Init ==
    /\ unlocked_private_key = None
    /\ public_key_file = None
    /\ private_key_file = None
    /\ cache_file = None
    /\ jwt_file = None
    /\ session = None
    /\ encryption_key = None
    /\ passphrase_key = None
    /\ current_mappings = EmptyMapping
    /\ upload = None
    /\ last = [op |-> "init", arg |-> "", data |-> <<>>, ret |-> RetNone]
    /\ gen = None
    /\ cycles = 0
    /\ tampered = 0
    /\ fresh_salt_used = FALSE
    /\ vaults = <<>>
    /\ held = None
    /\ urandom = 0
    /\ saving = None
    /\ crashed = None
    /\ mapping_file = None
    /\ setup_flag_file = None
    /\ cached_mappings = None
    /\ hv_setup = None
    /\ shutdown_requested = FALSE
    /\ shutdown_task = None
    /\ exited = None
    /\ requests = [r \in 1..MaxRequests |-> None]
    /\ deriving = None
    /\ update_checker = None
    /\ checks = [c \in 1..MaxCallers |-> None]
    /\ encryptions = <<>>

CallGenerateKeypair(passphrase) ==
    \E private_key \in PrivateKeys, fresh \in Salts, nonce \in Nonces :
        /\ generate_keypair(passphrase, private_key, fresh, nonce)
        /\ Returned("generate_keypair", passphrase,
                    RetValue("pubkey", PublicBytesPem(PublicKey(private_key))))
        /\ UNCHANGED <<notKm, tampered, fresh_salt_used, extVars>>

CallUnlock(passphrase) ==
    /\ unlock(passphrase)
    /\ Returned("unlock", passphrase, UnlockReturn(passphrase))
    /\ UNCHANGED <<notKm, tampered, fresh_salt_used, extVars>>

CallLock ==
    /\ lock
    /\ Returned("lock", "", RetNone)
    /\ UNCHANGED <<notKm, tampered, fresh_salt_used, extVars>>

CallGetStoredSalt ==
    /\ Returned("get_stored_salt", "", [kind |-> "salt", val |-> get_stored_salt])
    /\ UNCHANGED <<kmVars, notKm, histVars, extVars>>

CallPerformKeyExchange(peer) ==
    /\ Returned("perform_key_exchange", "", perform_key_exchange(peer))
    /\ UNCHANGED <<kmVars, notKm, histVars, extVars>>

CallSave(mapping, key) ==
    \E nonce \in Nonces :
        /\ save(mapping, key, nonce)
        /\ ReturnedFor("save", "", [mapping |-> mapping, key |-> key], RetNone)
        /\ UNCHANGED <<kmVars, authVars, appVars, histVars, extVars>>

CallLoad(key) ==
    /\ Returned("load", "", [kind |-> "mapping", val |-> load(key)])
    /\ UNCHANGED <<kmVars, notKm, histVars, extVars>>

CallClear ==
    /\ clear
    /\ Returned("clear", "", RetNone)
    /\ UNCHANGED <<kmVars, authVars, appVars, histVars, extVars>>

CallLogout ==
    /\ logout
    /\ Returned("logout", "", RetNone)
    /\ UNCHANGED <<kmVars, cache_file, appVars, histVars, extVars>>

CallClearSensitiveData ==
    /\ clear_sensitive_data
    /\ Returned("clear_sensitive_data", "", RetNone)
    /\ UNCHANGED <<cache_file, authVars, upload, tampered, fresh_salt_used, extVars>>

\* The KeyManager called directly, in any order.
Next ==
    \/ \E p \in Passphrases : CallGenerateKeypair(p)
    \/ \E p \in Passphrases : CallUnlock(p)
    \/ CallLock
    \/ CallGetStoredSalt
    \/ \E peer \in PeerKeys : CallPerformKeyExchange(peer)

Spec == Init /\ [][Next]_vars

\* The KeyManager together with the stores around it: LocalVaultCache,
\* AuthManager.logout and AppState.clear_sensitive_data.
StoreNext ==
    \/ \E p \in Passphrases : CallGenerateKeypair(p)
    \/ \E p \in Passphrases : CallUnlock(p)
    \/ CallLock
    \/ CallGetStoredSalt
    \/ \E peer \in PeerKeys : CallPerformKeyExchange(peer)
    \/ \E m \in Mappings, k \in DerivedKeys : CallSave(m, k)
    \/ \E k \in DerivedKeys : CallLoad(k)
    \/ CallClear
    \/ CallLogout
    \/ CallClearSensitiveData

StoreSpec == Init /\ [][StoreNext]_vars

\* What a call of derive_key returns or raises: hash_secret_raw raises for a
\* salt Argon2id refuses.
DeriveKeyReturn(passphrase, salt, fresh) ==
    IF salt # None /\ ~Argon2SaltOk(salt[1]) THEN RetRaise("HashingError")
    ELSE RetValue("derived", DeriveKey(passphrase, salt, fresh))

\* derive_key called directly; data holds the salt argument and, in before,
\* the arguments and the outcome of the call of derive_key just before this
\* one, None when there was none.
CallDeriveKey(passphrase, salt) ==
    \E fresh \in Salts :
        /\ ReturnedFor("derive_key", passphrase,
                       [salt |-> salt,
                        before |-> IF last.op = "derive_key"
                                   THEN Some([arg |-> last.arg, salt |-> last.data[1].salt,
                                              ret |-> last.ret])
                                   ELSE None],
                       DeriveKeyReturn(passphrase, salt, fresh))
        /\ UNCHANGED <<kmVars, notKm, histVars, extVars>>

DeriveNext ==
    \E p \in Passphrases, salt \in {None} \cup {Some(x) : x \in SuppliedSalts} :
        CallDeriveKey(p, salt)

DeriveSpec == Init /\ [][DeriveNext]_vars

\* ------------------------------------------------------------- the cache file
\* Another process, or a failing disk, alters mapping_cache.enc: another or a
\* truncated nonce, a flipped bit of the ciphertext, text that is not
\* base64, a removed member, a file cut short so that it is no longer JSON.
TamperedCacheTexts(text) ==
    LET obj == text.obj
        Put(name, member) == [text EXCEPT !.obj = [obj EXCEPT ![name] = member]]
    IN  {Put("nonce", B64Encode(n)) : n \in Nonces \ {obj.nonce.b64}}
        \cup {Put("nonce", B64Encode(RandomBytes(0, 0)))}
        \cup {Put("ciphertext", B64Encode([obj.ciphertext.b64 EXCEPT !.intact = FALSE]))}
        \cup {Put(name, [obj[name] EXCEPT !.form = form]) :
                  name \in {"nonce", "ciphertext"}, form \in {"badpad", "missing"}}
        \cup {[text EXCEPT !.wellformed = FALSE]}

TamperCache ==
    /\ cache_file # None
    /\ tampered < MaxTamper
    /\ \E text \in TamperedCacheTexts(cache_file[1]) \ {cache_file[1]} :
           cache_file' = Some(text)
    /\ tampered' = tampered + 1
    /\ Returned("tamper_cache", "", RetNone)
    /\ UNCHANGED <<kmVars, authVars, appVars, gen, cycles, fresh_salt_used, extVars>>

\* The LocalVaultCache called directly, with its file open to alteration.
CacheNext ==
    \/ \E m \in Mappings, k \in DerivedKeys : CallSave(m, k)
    \/ \E k \in DerivedKeys : CallLoad(k)
    \/ CallClear
    \/ TamperCache

CacheSpec == Init /\ [][CacheNext]_vars

\* ------------------------------------------------------------- a crash during save
\* LocalVaultCache.save writes with Path.write_text, which opens the file for
\* writing (truncating it, or creating it empty), writes the text and closes
\* it.  The steps of one save, between which the process can be killed:
\* the file as open() leaves it, as a first flushed part of the text leaves
\* it, and as close() leaves it.  A run follows the saves up to one crash and
\* the loads after the restart.
EmptyFile == [wellformed |-> FALSE, obj |-> <<>>]
PartOf(text) == [text EXCEPT !.wellformed = FALSE]

save_open(mapping, key) ==
    \E nonce \in Nonces :
        LET ciphertext == AesGcmEncrypt(key, nonce, JsonDumps(mapping))
            cache_data == [nonce |-> B64Encode(nonce), ciphertext |-> B64Encode(ciphertext)]
        IN  /\ saving = None /\ crashed = None
            /\ saving' = Some([pc |-> "open", old |-> cache_file,
                               new |-> JsonDumps(cache_data),
                               mapping |-> mapping, key |-> key])
            /\ cache_file' = Some(EmptyFile)
            /\ Returned("save_open", "", RetNone)
            /\ UNCHANGED <<kmVars, authVars, appVars, histVars, procVars, laterVars, vaultVars, crashed, hvVars>>

save_write_part ==
    /\ saving # None /\ saving[1].pc = "open"
    /\ saving' = Some([saving[1] EXCEPT !.pc = "part"])
    /\ cache_file' = Some(PartOf(saving[1].new))
    /\ Returned("save_write", "", RetNone)
    /\ UNCHANGED <<kmVars, authVars, appVars, histVars, procVars, laterVars, vaultVars, crashed, hvVars>>

save_close ==
    /\ saving # None
    /\ saving' = None
    /\ cache_file' = Some(saving[1].new)
    /\ ReturnedFor("save", "", [mapping |-> saving[1].mapping, key |-> saving[1].key], RetNone)
    /\ UNCHANGED <<kmVars, authVars, appVars, histVars, procVars, laterVars, vaultVars, crashed, hvVars>>

\* The process is killed during a save and started again: the file stays as
\* the last step left it.
Crash ==
    /\ saving # None
    /\ saving' = None
    /\ crashed' = Some(saving[1])
    /\ Returned("crash", "", RetNone)
    /\ UNCHANGED <<kmVars, notKm, histVars, procVars, laterVars, vaultVars, hvVars>>

CrashNext ==
    \/ \E m \in Mappings, k \in DerivedKeys : save_open(m, k)
    \/ save_write_part
    \/ save_close
    \/ Crash
    \/ \E k \in DerivedKeys : saving = None /\ CallLoad(k)

CrashSpec == Init /\ [][CrashNext]_vars

\* ------------------------------------------------------------- external tampering
\* Another process alters one member of the stored private-key record:
\* a different value of valid length, a truncated value, text that is not
\* base64, a removed member, or a file that is no longer JSON.
TamperedTexts(text) ==
    LET obj == text.obj
        Put(name, member) == [text EXCEPT !.obj = [obj EXCEPT ![name] = member]]
        ct == obj.ciphertext.b64
    IN  {Put("salt", B64Encode(s)) : s \in Salts \ {obj.salt.b64}}
        \cup {Put("salt", B64Encode(RandomBytes(0, 0)))}
        \cup {Put("nonce", B64Encode(n)) : n \in Nonces \ {obj.nonce.b64}}
        \cup {Put("nonce", B64Encode(RandomBytes(0, 0)))}
        \cup {Put("ciphertext", B64Encode([ct EXCEPT !.intact = FALSE]))}
        \cup {Put(name, [obj[name] EXCEPT !.form = form]) :
                  name \in {"salt", "nonce", "ciphertext"}, form \in {"badpad", "missing"}}
        \cup {[text EXCEPT !.wellformed = FALSE]}

Tamper ==
    /\ private_key_file # None
    /\ tampered < MaxTamper
    /\ \E text \in TamperedTexts(private_key_file[1]) \ {private_key_file[1]} :
           private_key_file' = Some(text)
    /\ tampered' = tampered + 1
    /\ Returned("tamper", "", RetNone)
    /\ UNCHANGED <<unlocked_private_key, public_key_file, notKm, gen, cycles, fresh_salt_used, extVars>>

\* The KeyManager's state-changing calls, with the record open to tampering.
TamperNext ==
    \/ \E p \in Passphrases : CallGenerateKeypair(p)
    \/ \E p \in Passphrases : CallUnlock(p)
    \/ CallLock
    \/ Tamper

SpecTamper == Init /\ [][TamperNext]_vars

\* ------------------------------------------------------------- VaultEncryptor
HKDF_INFO == "cerebro-vault-dek-wrap"

\* The random source (os.urandom, X25519PrivateKey.generate) as the
\* VaultEncryptor sees it: the k-th value after the urandom already produced.
\* A value it produces is never produced again.
UrandomBytes(n, k) == RandomBytes(n, urandom + k)
\* An ephemeral private key: one that is no recipient's key.
UrandomKey(k) == NumKeys + urandom + k

\* HKDF(SHA256, length=32, salt=None, info).derive(secret)
HkdfDerive(info, secret) == [len |-> 32, info |-> info, ikm |-> secret]
\* aes_key_wrap(wrapping_key, key): 8 bytes longer than the key.
AesKeyWrap(wrapping_key, key) ==
    [kek |-> wrapping_key, key |-> key, len |-> key.len + 8, intact |-> TRUE]
\* aes_key_unwrap raises InvalidUnwrap unless the wrapped key is unaltered
\* and was wrapped under this wrapping key, and for a wrong length.
AesKeyUnwrapOk(wrapping_key, wrapped) ==
    /\ wrapped.len >= 24 /\ wrapped.len % 8 = 0
    /\ wrapped.intact
    /\ wrapped.kek = wrapping_key
AesKeyUnwrap(wrapping_key, wrapped) == wrapped.key

\* Metadata a caller can attach: none, an empty dict, a tag.
EmptyMetadata == [k \in {} |-> ""]
Metadatas == {None, Some(EmptyMetadata), Some([source |-> "upload"])}

\* The EncryptedVault dataclass.
EncryptedVault(ciphertext, nonce, wrapped_dek, ephemeral_public_key, metadata) ==
    [ciphertext |-> ciphertext, nonce |-> nonce, wrapped_dek |-> wrapped_dek,
     ephemeral_public_key |-> ephemeral_public_key, metadata |-> metadata]

\* encrypt_mapping raises when the exchange with the recipient key does.
EncryptMappingOk(recipient_public_key) == ExchangeOk(recipient_public_key.pub)

\* Mutant: the wrapping key is derived with another info string than the
\* one decrypt_mapping uses.
encrypt_mapping_other_info(mapping, recipient_public_key, metadata, dek, nonce, ephemeral_private) ==
    LET shared_secret == Exchange(ephemeral_private, recipient_public_key.pub)
    IN  EncryptedVault(AesGcmEncrypt(dek, nonce, JsonDumps(mapping)), nonce,
                       AesKeyWrap(HkdfDerive("cerebro-vault", shared_secret), dek),
                       PublicBytesRaw(PublicKey(ephemeral_private)),
                       IF metadata = None \/ metadata = Some(EmptyMetadata)
                       THEN EmptyMetadata ELSE metadata[1])
\* Mutant: the nonce is a fixed value instead of the one drawn.
encrypt_mapping_fixed_nonce(mapping, recipient_public_key, metadata, dek, nonce, ephemeral_private) ==
    LET shared_secret == Exchange(ephemeral_private, recipient_public_key.pub)
    IN  EncryptedVault(AesGcmEncrypt(dek, RandomBytes(NONCE_LEN, 0), JsonDumps(mapping)),
                       RandomBytes(NONCE_LEN, 0),
                       AesKeyWrap(HkdfDerive(HKDF_INFO, shared_secret), dek),
                       PublicBytesRaw(PublicKey(ephemeral_private)),
                       IF metadata = None \/ metadata = Some(EmptyMetadata)
                       THEN EmptyMetadata ELSE metadata[1])
\* VaultEncryptor.encrypt_mapping(mapping, recipient_public_key, metadata);
\* dek, nonce and ephemeral_private are its three random draws.
encrypt_mapping(mapping, recipient_public_key, metadata, dek, nonce, ephemeral_private) ==
    LET plaintext == JsonDumps(mapping)
        ciphertext == AesGcmEncrypt(dek, nonce, plaintext)
        ephemeral_public == PublicKey(ephemeral_private)
        shared_secret == Exchange(ephemeral_private, recipient_public_key.pub)
        wrapping_key == HkdfDerive(HKDF_INFO, shared_secret)
        wrapped_dek == AesKeyWrap(wrapping_key, dek)
    IN  EncryptedVault(ciphertext, nonce, wrapped_dek, PublicBytesRaw(ephemeral_public),
                       IF metadata = None \/ metadata = Some(EmptyMetadata)
                       THEN EmptyMetadata ELSE metadata[1])

\* Mutant: a failed unwrap or decryption yields an empty mapping.
decrypt_mapping_silent(vault, private_key) ==
    IF ~FromPublicBytesOk(vault.ephemeral_public_key) THEN RetRaise("ValueError")
    ELSE LET ephemeral_public == FromPublicBytes(vault.ephemeral_public_key)
         IN  IF ~ExchangeOk(ephemeral_public.pub) THEN RetRaise("ValueError")
             ELSE LET wrapping_key ==
                          HkdfDerive(HKDF_INFO, Exchange(private_key, ephemeral_public.pub))
                  IN  IF ~AesKeyUnwrapOk(wrapping_key, vault.wrapped_dek)
                      THEN RetValue("mapping", EmptyMapping)
                      ELSE LET dek == AesKeyUnwrap(wrapping_key, vault.wrapped_dek)
                           IN  IF ~AesGcmDecryptOk(dek, vault.nonce, vault.ciphertext)
                               THEN RetValue("mapping", EmptyMapping)
                               ELSE RetValue("mapping",
                                        JsonLoads(AesGcmDecrypt(dek, vault.nonce, vault.ciphertext)))
\* VaultEncryptor.decrypt_mapping(vault, private_key): the mapping, or the
\* exception a step raises.
decrypt_mapping(vault, private_key) ==
    IF ~FromPublicBytesOk(vault.ephemeral_public_key) THEN RetRaise("ValueError")
    ELSE LET ephemeral_public == FromPublicBytes(vault.ephemeral_public_key)
         IN  IF ~ExchangeOk(ephemeral_public.pub) THEN RetRaise("ValueError")
             ELSE LET shared_secret == Exchange(private_key, ephemeral_public.pub)
                      wrapping_key == HkdfDerive(HKDF_INFO, shared_secret)
                  IN  IF ~AesKeyUnwrapOk(wrapping_key, vault.wrapped_dek)
                      THEN RetRaise("InvalidUnwrap")
                      ELSE LET dek == AesKeyUnwrap(wrapping_key, vault.wrapped_dek)
                           IN  IF ~AesGcmDecryptOk(dek, vault.nonce, vault.ciphertext)
                               THEN RetRaise("InvalidTag")
                               ELSE LET plaintext ==
                                            AesGcmDecrypt(dek, vault.nonce, vault.ciphertext)
                                    IN  IF ~JsonLoadsOk(plaintext)
                                        THEN RetRaise("JSONDecodeError")
                                        ELSE RetValue("mapping", JsonLoads(plaintext))

\* The callers of the VaultEncryptor: one encrypts a mapping for a
\* recipient and holds the vault, the vault's members are altered on the
\* way, one decrypts the held vault with a private key.
CallEncryptMapping(mapping, recipient, metadata) ==
    LET dek == UrandomBytes(DEK_LEN, 1)
        nonce == UrandomBytes(NONCE_LEN, 2)
        ephemeral_private == UrandomKey(3)
        recipient_public_key == PublicKey(recipient)
        vault == encrypt_mapping(mapping, recipient_public_key, metadata,
                                 dek, nonce, ephemeral_private)
    IN  /\ urandom + 3 <= 3 * MaxVaults
        /\ urandom' = urandom + 3
        /\ IF EncryptMappingOk(recipient_public_key)
           THEN /\ vaults' = Append(vaults, [vault |-> vault, dek |-> dek,
                                             mapping |-> mapping, recipient |-> recipient])
                /\ held' = Some([vault |-> vault, mapping |-> mapping,
                                 recipient |-> recipient, altered |-> {}])
                /\ ReturnedFor("encrypt_mapping", "", recipient, RetValue("vault", vault))
           ELSE /\ UNCHANGED <<vaults, held>>
                /\ ReturnedFor("encrypt_mapping", "", recipient, RetRaise("ValueError"))
        /\ UNCHANGED <<kmVars, notKm, histVars, procVars, laterVars, crashVars, hvVars>>

\* The values a member of an EncryptedVault can be altered to: a flipped
\* bit or a truncation of the ciphertext or the wrapped key, another or a
\* truncated nonce, another public key, the low-order point, the same key
\* with the top bit set or a truncated key, other metadata.
AlteredVaults(v) ==
    {[field |-> "ciphertext", vault |-> [v EXCEPT !.ciphertext.intact = FALSE]]}
    \cup {[field |-> "nonce", vault |-> [v EXCEPT !.nonce = n]] :
              n \in {RandomBytes(NONCE_LEN, 0), RandomBytes(0, 0)}}
    \cup {[field |-> "wrapped_dek", vault |-> [v EXCEPT !.wrapped_dek.intact = FALSE]],
          [field |-> "wrapped_dek", vault |-> [v EXCEPT !.wrapped_dek.len = 16]]}
    \cup {[field |-> "ephemeral_public_key",
           vault |-> [v EXCEPT !.ephemeral_public_key.id = k]] : k \in PeerKeys}
    \cup {[field |-> "ephemeral_public_key",
           vault |-> [v EXCEPT !.ephemeral_public_key.msb = 1]],
          [field |-> "ephemeral_public_key",
           vault |-> [v EXCEPT !.ephemeral_public_key.len = 31]]}
    \cup {[field |-> "metadata", vault |-> [v EXCEPT !.metadata = [source |-> "altered"]]]}

AlterVault ==
    /\ held # None
    /\ Cardinality(held[1].altered) < MaxAlter
    /\ \E a \in AlteredVaults(held[1].vault) :
           /\ a.field \notin held[1].altered
           /\ a.vault # held[1].vault
           /\ held' = Some([held[1] EXCEPT !.vault = a.vault,
                                           !.altered = @ \cup {a.field}])
    /\ Returned("alter", "", RetNone)
    /\ UNCHANGED <<kmVars, notKm, histVars, procVars, laterVars, vaults, urandom, crashVars, hvVars>>

CallDecryptMapping(private_key) ==
    /\ held # None
    /\ ReturnedFor("decrypt_mapping", "", private_key,
                   decrypt_mapping(held[1].vault, private_key))
    /\ UNCHANGED <<kmVars, notKm, histVars, extVars>>

VaultNext ==
    \/ \E m \in Mappings, r \in PeerKeys, md \in Metadatas : CallEncryptMapping(m, r, md)
    \/ AlterVault
    \/ \E k \in PrivateKeys : CallDecryptMapping(k)

VaultSpec == Init /\ [][VaultNext]_vars

\* ------------------------------------------------------------- HoeilaartVault
\* A flat record of the practice's mapping file; pseudoniem 0 stands for a
\* record without a pseudoniem (record.get returns None or "").
Record(p) == [pseudoniem |-> p, origineel_id |-> p]
Records == {Record(p) : p \in 0..NumPatients}
RecordLists == UNION {[1..n -> Records] : n \in 0..MaxRecords}
FileRecordLists == UNION {[1..n -> Records] : n \in 0..MaxFileRecords}

\* The loop of setup: records indexed by pseudoniem, a later record
\* replacing an earlier one with the same pseudoniem, records without one
\* left out.
RECURSIVE IndexRecords(_)
IndexRecords(records) ==
    IF records = <<>> THEN EmptyMapping
    ELSE LET n == Len(records)
             earlier == IndexRecords(SubSeq(records, 1, n - 1))
             record == records[n]
         IN  IF record.pseudoniem = 0 THEN earlier
             ELSE [i \in DOMAIN earlier \cup {record.pseudoniem} |->
                       IF i = record.pseudoniem THEN [insz |-> record.origineel_id]
                       ELSE earlier[i]]

\* hashlib.pbkdf2_hmac('sha256', passphrase, salt, 100000, dklen=32)
Pbkdf2Hmac(passphrase, salt) ==
    [len |-> 32, kdf |-> "pbkdf2", pass |-> passphrase, salt |-> salt]
\* HoeilaartVault._derive_key(passphrase, salt=None); fresh is os.urandom(16).
hv_derive_key(passphrase, salt, fresh) ==
    LET used == IF salt = None THEN fresh ELSE salt[1]
    IN  [key |-> Pbkdf2Hmac(passphrase, used), salt |-> used]

\* The byte string salt + nonce + ciphertext and its three slices
\* data[:16], data[16:28] and data[28:]; the ciphertext slice of a string of
\* 28 bytes or fewer is empty (None).
Blob(salt, nonce, ciphertext) == [salt |-> salt, nonce |-> nonce, rest |-> Some(ciphertext)]
\* A byte string cut to n bytes, n < 28.
CutBlob(data, n) ==
    [salt |-> IF n >= 16 THEN data.salt ELSE [data.salt EXCEPT !.len = n],
     nonce |-> IF n >= 16 THEN [data.nonce EXCEPT !.len = n - 16]
               ELSE [data.nonce EXCEPT !.len = 0],
     rest |-> None]
\* Lengths below the 28-byte header a byte string is cut to.
CutLengths == {0, 20, 27}

\* The body of the try blocks of decrypt_original_file and unlock:
\* [ok, value]; ok is FALSE when AESGCM.decrypt or json.loads raises.
TryDecryptBlob(encrypted_data, passphrase) ==
    LET failed == [ok |-> FALSE, value |-> <<>>]
        salt == encrypted_data.salt
        nonce == encrypted_data.nonce
        key == hv_derive_key(passphrase, Some(salt), salt).key
    IN  IF encrypted_data.rest = None THEN failed
        ELSE IF ~AesGcmDecryptOk(key, nonce, encrypted_data.rest[1]) THEN failed
        ELSE LET plaintext == AesGcmDecrypt(key, nonce, encrypted_data.rest[1])
             IN  IF ~JsonLoadsOk(plaintext) THEN failed
                 ELSE [ok |-> TRUE, value |-> JsonLoads(plaintext)]

\* Mutant: a failed decryption yields an empty list of records.
decrypt_original_file_empty(encrypted_data, password) ==
    IF TryDecryptBlob(encrypted_data, password).ok
    THEN RetValue("records", TryDecryptBlob(encrypted_data, password).value)
    ELSE RetValue("records", <<>>)
\* HoeilaartVault.decrypt_original_file(encrypted_data, password)
decrypt_original_file(encrypted_data, password) ==
    LET try == TryDecryptBlob(encrypted_data, password)
    IN  IF try.ok THEN RetValue("records", try.value)
        ELSE RetRaise("ValueError")

\* HoeilaartVault.is_setup_complete
is_setup_complete == setup_flag_file # None /\ mapping_file # None
\* HoeilaartVault.is_unlocked
hv_is_unlocked == cached_mappings # None

\* Mutant: the salt stored ahead of the nonce is not the one the key was
\* derived from.
save_encrypted_other_salt(mapping, passphrase, fresh, nonce) ==
    LET derived == hv_derive_key(passphrase, None, fresh)
        ciphertext == AesGcmEncrypt(derived.key, nonce, JsonDumps(mapping))
        other == CHOOSE x \in Salts : x # derived.salt
    IN  mapping_file' = Some(Blob(other, nonce, ciphertext))
\* HoeilaartVault._save_encrypted(mapping, passphrase); fresh and nonce are
\* the draws of os.urandom.
save_encrypted(mapping, passphrase, fresh, nonce) ==
    LET derived == hv_derive_key(passphrase, None, fresh)
        ciphertext == AesGcmEncrypt(derived.key, nonce, JsonDumps(mapping))
    IN  mapping_file' = Some(Blob(derived.salt, nonce, ciphertext))

\* Mutant: the marker records the number of records supplied.
setup_counts_records(records, passphrase, fresh, nonce) ==
    /\ save_encrypted(IndexRecords(records), passphrase, fresh, nonce)
    /\ setup_flag_file' = Some(JsonDumps([setup_complete |-> TRUE,
                                          patient_count |-> Len(records)]))
    /\ cached_mappings' = Some(IndexRecords(records))
\* HoeilaartVault.setup(records, passphrase)
setup(records, passphrase, fresh, nonce) ==
    LET indexed_mapping == IndexRecords(records)
    IN  /\ save_encrypted(indexed_mapping, passphrase, fresh, nonce)
        /\ setup_flag_file' = Some(JsonDumps([setup_complete |-> TRUE,
                                              patient_count |-> Cardinality(DOMAIN indexed_mapping)]))
        /\ cached_mappings' = Some(indexed_mapping)

\* Mutant: unlock lets the exception of a failed decryption through.
HvUnlockReturn_propagates(passphrase) ==
    IF mapping_file = None THEN RetBool(FALSE)
    ELSE IF TryDecryptBlob(mapping_file[1], passphrase).ok THEN RetBool(TRUE)
    ELSE RetRaise("InvalidTag")
\* What HoeilaartVault.unlock(passphrase) returns.
HvUnlockReturn(passphrase) ==
    IF mapping_file = None THEN RetBool(FALSE)
    ELSE RetBool(TryDecryptBlob(mapping_file[1], passphrase).ok)

\* HoeilaartVault.unlock(passphrase)
hv_unlock(passphrase) ==
    /\ IF mapping_file = None THEN UNCHANGED cached_mappings
       ELSE LET try == TryDecryptBlob(mapping_file[1], passphrase)
            IN  cached_mappings' = IF try.ok THEN Some(try.value) ELSE None
    /\ UNCHANGED <<mapping_file, setup_flag_file>>

\* HoeilaartVault.lock()
hv_lock ==
    /\ cached_mappings' = None
    /\ UNCHANGED <<mapping_file, setup_flag_file>>

\* Mutant: clear drops the cache and the marker and leaves the store.
hv_clear_keeps_store ==
    /\ cached_mappings' = None
    /\ setup_flag_file' = None
    /\ UNCHANGED mapping_file
\* HoeilaartVault.clear()
hv_clear ==
    /\ cached_mappings' = None
    /\ mapping_file' = None
    /\ setup_flag_file' = None

\* Lists of ids a caller can hand to resolve_batch.
IdLists == UNION {[1..n -> PseudoIds] : n \in 0..MaxBatch}

\* Python truthiness of Optional[dict]: None and {} are false.
TruthyDict(d) == d # None /\ DOMAIN d[1] # {}
\* A dict handed to a caller: its items and whether it is the object held in
\* _cached_mappings itself rather than a dict of its own.
DictResult(is_cache, items) == RetValue("dict", [is_cache |-> is_cache, items |-> items])

\* HoeilaartVault.resolve(pseudo_id)
resolve(pseudo_id) ==
    IF ~TruthyDict(cached_mappings) THEN RetNone
    ELSE IF pseudo_id \in DOMAIN cached_mappings[1]
         THEN RetValue("record", cached_mappings[1][pseudo_id])
         ELSE RetNone

\* The loop of resolve_batch: results after the ids of pseudo_ids, in order.
RECURSIVE ResolveLoop(_)
ResolveLoop(pseudo_ids) ==
    IF pseudo_ids = <<>> THEN EmptyMapping
    ELSE LET n == Len(pseudo_ids)
             results == ResolveLoop(SubSeq(pseudo_ids, 1, n - 1))
             pid == pseudo_ids[n]
         IN  IF pid \in DOMAIN cached_mappings[1]
             THEN [i \in DOMAIN results \cup {pid} |-> cached_mappings[1][i]]
             ELSE results
\* HoeilaartVault.resolve_batch(pseudo_ids)
resolve_batch(pseudo_ids) ==
    IF ~TruthyDict(cached_mappings) THEN DictResult(FALSE, EmptyMapping)
    ELSE DictResult(FALSE, ResolveLoop(pseudo_ids))

\* Mutant: get_all_mappings hands out the cached dict itself.
get_all_mappings_no_copy ==
    IF ~TruthyDict(cached_mappings) THEN DictResult(FALSE, EmptyMapping)
    ELSE DictResult(TRUE, cached_mappings[1])
\* HoeilaartVault.get_all_mappings()
get_all_mappings ==
    IF ~TruthyDict(cached_mappings) THEN DictResult(FALSE, EmptyMapping)
    ELSE DictResult(FALSE, cached_mappings[1])

\* The file mapping_encrypted.bin as the pseudonymisation tool writes it for
\* a list of records and a practice password: salt + nonce + ciphertext
\* under the PBKDF2 key.
OriginalFile(records, password, salt, nonce) ==
    Blob(salt, nonce, AesGcmEncrypt(Pbkdf2Hmac(password, salt), nonce, JsonDumps(records)))

\* What a byte string of that layout can be corrupted to: a flipped bit in
\* the ciphertext, another salt, another nonce, a string cut below the
\* 28-byte header.
CorruptedBlobs(data) ==
    (IF data.rest = None THEN {}
     ELSE {[data EXCEPT !.rest = Some([data.rest[1] EXCEPT !.intact = FALSE])]})
    \cup {[data EXCEPT !.salt = x] : x \in Salts \ {data.salt}}
    \cup {[data EXCEPT !.nonce = n] : n \in Nonces \ {data.nonce}}
    \cup {CutBlob(data, n) : n \in CutLengths}

\* The files a user can hand to decrypt_original_file, each with the records
\* and the password it was made from and whether it is still as made.
InputFiles ==
    LET made == {[data |-> OriginalFile(r, pw, x, n), records |-> r, password |-> pw,
                  intact |-> TRUE] : r \in FileRecordLists, pw \in Passphrases,
                                     x \in Salts, n \in Nonces}
    IN  made \cup UNION {{[f EXCEPT !.data = c, !.intact = FALSE] : c \in CorruptedBlobs(f.data)} :
                             f \in made}

CallDecryptOriginalFile(file, password) ==
    /\ ReturnedFor("decrypt_original_file", password, file,
                   decrypt_original_file(file.data, password))
    /\ UNCHANGED <<kmVars, notKm, histVars, extVars>>

\* hv_setup keeps, besides what setup was given and the store it wrote, what
\* every lookup returns once setup is done.
CallSetup(records, passphrase) ==
    \E fresh \in Salts, nonce \in Nonces :
        /\ setup(records, passphrase, fresh, nonce)
        /\ hv_setup' = Some([records |-> records, passphrase |-> passphrase,
                             store |-> mapping_file'[1],
                             resolved |-> [id \in PseudoIds |-> resolve(id)'],
                             batches |-> [ids \in IdLists |-> resolve_batch(ids)'],
                             all |-> get_all_mappings'])
        /\ Returned("setup", passphrase, RetNone)
        /\ UNCHANGED <<kmVars, notKm, histVars, procVars, laterVars, vaultVars, crashVars>>

\* setup called with the records the last decrypt_original_file returned.
CallSetupFromFile(passphrase) ==
    /\ last.op = "decrypt_original_file" /\ last.ret.kind = "records"
    /\ CallSetup(last.ret.val[1], passphrase)

\* data is what is_unlocked was before the call.
CallHvUnlock(passphrase) ==
    /\ hv_unlock(passphrase)
    /\ ReturnedFor("hv_unlock", passphrase, [is_unlocked |-> hv_is_unlocked],
                   HvUnlockReturn(passphrase))
    /\ UNCHANGED <<kmVars, notKm, histVars, procVars, laterVars, vaultVars, crashVars, hv_setup>>

CallHvLock ==
    /\ hv_lock
    /\ Returned("hv_lock", "", RetNone)
    /\ UNCHANGED <<kmVars, notKm, histVars, procVars, laterVars, vaultVars, crashVars, hv_setup>>

\* data is what is_setup_complete and is_unlocked were before the call.
CallHvClear ==
    /\ hv_clear
    /\ hv_setup' = None
    /\ ReturnedFor("hv_clear", "", [is_setup_complete |-> is_setup_complete,
                                     is_unlocked |-> hv_is_unlocked], RetNone)
    /\ UNCHANGED <<kmVars, notKm, histVars, procVars, laterVars, vaultVars, crashVars>>

\* The process ends and a new one constructs the HoeilaartVault over the
\* same two paths: HoeilaartVault.__init__.
HvRestart ==
    /\ cached_mappings' = None
    /\ Returned("hv_restart", "", RetNone)
    /\ UNCHANGED <<kmVars, notKm, histVars, procVars, laterVars, vaultVars, crashVars,
                   mapping_file, setup_flag_file, hv_setup>>

\* Another process, or a failing disk, corrupts the persisted store.
TamperStore ==
    /\ mapping_file # None
    /\ tampered < MaxTamper
    /\ \E data \in CorruptedBlobs(mapping_file[1]) \ {mapping_file[1]} :
           mapping_file' = Some(data)
    /\ tampered' = tampered + 1
    /\ Returned("tamper_store", "", RetNone)
    /\ UNCHANGED <<kmVars, notKm, gen, cycles, fresh_salt_used, procVars, laterVars, vaultVars, crashVars,
                   setup_flag_file, cached_mappings, hv_setup>>

\* The import of the practice's file: decrypt it, set the vault up with the
\* records it held.
ImportNext ==
    \/ \E f \in InputFiles, pw \in Passphrases : CallDecryptOriginalFile(f, pw)
    \/ \E p \in Passphrases : CallSetupFromFile(p)

ImportSpec == Init /\ [][ImportNext]_vars

\* The HoeilaartVault called directly, with its store open to corruption.
LegacyNext ==
    \/ \E r \in RecordLists, p \in Passphrases : CallSetup(r, p)
    \/ \E p \in Passphrases : CallHvUnlock(p)
    \/ CallHvLock
    \/ CallHvClear
    \/ TamperStore

LegacySpec == Init /\ [][LegacyNext]_vars

CallResolve(pseudo_id) ==
    /\ ReturnedFor("resolve", "", pseudo_id, resolve(pseudo_id))
    /\ UNCHANGED <<kmVars, notKm, histVars, extVars>>

CallResolveBatch(pseudo_ids) ==
    /\ ReturnedFor("resolve_batch", "", pseudo_ids, resolve_batch(pseudo_ids))
    /\ UNCHANGED <<kmVars, notKm, histVars, extVars>>

CallGetAllMappings ==
    /\ Returned("get_all_mappings", "", get_all_mappings)
    /\ UNCHANGED <<kmVars, notKm, histVars, extVars>>

\* The dict d with the entry for id added when it has none, removed when it
\* has one.
ToggleEntry(d, id) ==
    IF id \in DOMAIN d THEN [i \in DOMAIN d \ {id} |-> d[i]]
    ELSE [i \in DOMAIN d \cup {id} |-> IF i = id THEN [insz |-> id] ELSE d[i]]

\* The caller adds an entry to, or removes one from, the dict that
\* get_all_mappings has just returned; when that dict is the cached object
\* the cache changes with it.
MutateResult ==
    /\ last.op = "get_all_mappings"
    /\ \E id \in PseudoIds :
           LET result == last.ret.val[1]
               items == ToggleEntry(result.items, id)
           IN  /\ cached_mappings' = IF result.is_cache THEN Some(items) ELSE cached_mappings
               /\ ReturnedFor("mutate_result", "", id, DictResult(result.is_cache, items))
    /\ UNCHANGED <<kmVars, notKm, histVars, procVars, laterVars, vaultVars, crashVars,
                   mapping_file, setup_flag_file, hv_setup>>

\* The HoeilaartVault with its lookups, and a caller that changes what
\* get_all_mappings returned.
LookupNext ==
    \/ \E r \in RecordLists, p \in Passphrases : CallSetup(r, p)
    \/ \E p \in Passphrases : CallHvUnlock(p)
    \/ CallHvLock
    \/ HvRestart
    \/ CallHvClear
    \/ \E id \in PseudoIds : CallResolve(id)
    \/ \E ids \in IdLists : CallResolveBatch(ids)
    \/ CallGetAllMappings
    \/ MutateResult

LookupSpec == Init /\ [][LookupNext]_vars

\* ------------------------------------------------------------- request handlers
\* Passphrases a request can carry: also the empty and a too short one.
RequestPassphrases == Passphrases \cup {"", "short"}

RetHttp(status, detail) == [kind |-> "http", val |-> <<status, detail>>]

\* Python truthiness of Optional[bytes]: None and b"" are false.
Truthy(bytes) == bytes # None /\ bytes[1].len > 0

\* POST /api/auth/login; ok is whether the cloud accepted the credentials.
api_login(ok) ==
    \E nonce \in Nonces :
        /\ login(ok, nonce)
        /\ Returned("api_login", "", IF ok THEN RetHttp(200, "Login successful")
                                 ELSE RetHttp(401, "Login failed"))
        /\ UNCHANGED <<kmVars, cache_file, appVars, histVars, extVars>>

\* POST /api/auth/logout
api_logout ==
    /\ logout
    /\ clear_sensitive_data
    /\ Returned("api_logout", "", RetHttp(200, "Logged out"))
    /\ UNCHANGED <<cache_file, upload, tampered, fresh_salt_used, extVars>>

\* POST /api/keys/generate from the end of request.json() to its next
\* suspension: one run of the event loop.
generate_keys_sync(passphrase) ==
    IF passphrase = "" \/ Len(passphrase) < 8
    THEN /\ Returned("generate_keys", passphrase, RetHttp(400, "Passphrase must be at least 8 characters"))
         /\ UNCHANGED <<kmVars, notKm, histVars, syncVars>>
    ELSE IF has_keys
    THEN /\ Returned("generate_keys", passphrase, RetHttp(400, "Keys already exist"))
         /\ UNCHANGED <<kmVars, notKm, histVars, syncVars>>
    ELSE \E private_key \in PrivateKeys, fresh \in Salts, nonce \in Nonces :
             /\ generate_keypair(passphrase, private_key, fresh, nonce)
             /\ LET salt == get_stored_salt'
                IN  IF Truthy(salt)
                    THEN LET derived_key == DeriveKey(passphrase, salt, fresh).key
                         IN  /\ passphrase_key' = Some(derived_key)
                             /\ set_encryption_key(derived_key)
                    ELSE UNCHANGED <<passphrase_key, encryption_key>>
             /\ Returned("generate_keys", passphrase, RetHttp(200, "Keys generated successfully"))
             /\ UNCHANGED <<cache_file, jwt_file, session, current_mappings, upload,
                            tampered, fresh_salt_used, syncVars>>

\* POST /api/keys/unlock from the end of request.json() to its return.
unlock_keys_sync(passphrase) ==
    IF passphrase = ""
    THEN /\ Returned("unlock_keys", passphrase, RetHttp(400, "Passphrase required"))
         /\ UNCHANGED <<kmVars, notKm, histVars, syncVars>>
    ELSE IF ~has_keys
    THEN /\ Returned("unlock_keys", passphrase, RetHttp(400, "No keys found"))
         /\ UNCHANGED <<kmVars, notKm, histVars, syncVars>>
    ELSE LET success == UnlockReturn(passphrase).val[1]
         IN  /\ unlock(passphrase)
             /\ IF success
                THEN \E fresh \in Salts :
                     LET salt == get_stored_salt
                         derived_key == IF Truthy(salt)
                                        THEN DeriveKey(passphrase, salt, fresh).key
                                        ELSE DeriveKey(passphrase, None, fresh).key
                         loaded == LoadedLocally(Some(derived_key))
                     IN  /\ passphrase_key' = Some(derived_key)
                         /\ set_encryption_key(derived_key)
                         /\ fresh_salt_used' = (fresh_salt_used \/ ~Truthy(salt))
                         /\ current_mappings' = IF loaded # None THEN loaded[1]
                                                ELSE current_mappings
                         /\ Returned("unlock_keys", passphrase, RetHttp(200, "Keys unlocked"))
                ELSE /\ Returned("unlock_keys", passphrase, RetHttp(401, "Invalid passphrase"))
                     /\ UNCHANGED <<passphrase_key, encryption_key, current_mappings,
                                    fresh_salt_used>>
             /\ UNCHANGED <<cache_file, jwt_file, session, upload, tampered, syncVars>>

\* POST /api/keys/lock, which never suspends.
lock_keys_sync ==
    /\ lock
    /\ Returned("lock_keys", "", RetHttp(200, "Keys locked"))
    /\ UNCHANGED <<notKm, tampered, fresh_salt_used, syncVars>>

\* The three key requests handled with no other key request in flight.
\* POST /api/keys/generate
generate_keys(passphrase) == generate_keys_sync(passphrase) /\ UNCHANGED concVars
\* POST /api/keys/unlock
unlock_keys(passphrase) == unlock_keys_sync(passphrase) /\ UNCHANGED concVars
\* POST /api/keys/lock
lock_keys == lock_keys_sync /\ UNCHANGED concVars

\* POST /api/ingest/upload-file, up to its first suspension (await file.read()).
upload_file_begin ==
    /\ upload = None
    /\ IF session = None
       THEN /\ Returned("upload_file", "", RetHttp(401, "Not authenticated"))
            /\ UNCHANGED upload
       ELSE IF ~is_unlocked
       THEN /\ Returned("upload_file", "", RetHttp(400, "Keys must be unlocked first"))
            /\ UNCHANGED upload
       ELSE /\ upload' = Some([pc |-> "read"])
            /\ Returned("upload_file", "", RetNone)
    /\ UNCHANGED <<kmVars, cache_file, authVars, passphrase_key, current_mappings, histVars, extVars>>

\* upload_file from the end of file.read() to its second suspension
\* (await uploader.upload_patients); vault_mapping is what the pipeline made
\* of the file, None when processing failed.
upload_file_process(vault_mapping) ==
    /\ upload # None /\ upload[1].pc = "read"
    /\ IF vault_mapping = None
       THEN /\ upload' = None
            /\ Returned("upload_file", "", RetHttp(400, "Processing failed"))
            /\ UNCHANGED <<current_mappings, cache_file>>
       ELSE \E nonce \in Nonces :
            /\ current_mappings' = DictUpdate(current_mappings, vault_mapping[1])
            /\ save_mappings_locally(current_mappings', nonce)
            /\ IF session = None
               THEN /\ upload' = None
                    /\ Returned("upload_file", "", RetHttp(500, "Internal Server Error"))
               ELSE /\ upload' = Some([pc |-> "cloud"])
                    /\ Returned("upload_file", "", RetNone)
    /\ UNCHANGED <<kmVars, authVars, passphrase_key, histVars, extVars>>

\* upload_file after uploader.upload_patients answered.
upload_file_finish ==
    /\ upload # None /\ upload[1].pc = "cloud"
    /\ upload' = None
    /\ Returned("upload_file", "", RetHttp(200, "Processed"))
    /\ UNCHANGED <<kmVars, cache_file, authVars, passphrase_key, current_mappings, histVars, extVars>>

\* POST /api/mappings/reload
reload_mappings ==
    /\ IF ~is_unlocked
       THEN /\ Returned("reload_mappings", "", RetHttp(400, "Keys must be unlocked"))
            /\ UNCHANGED current_mappings
       ELSE IF passphrase_key = None
       THEN /\ Returned("reload_mappings", "", RetHttp(400, "Passphrase key not available"))
            /\ UNCHANGED current_mappings
       ELSE LET loaded == LoadedLocally(passphrase_key)
            IN  /\ current_mappings' = IF loaded # None THEN loaded[1] ELSE current_mappings
                /\ Returned("reload_mappings", "",
                            RetHttp(200, IF loaded # None THEN "Loaded"
                                         ELSE "No local mappings found"))
    /\ UNCHANGED <<kmVars, cache_file, authVars, passphrase_key, upload, histVars, extVars>>

\* DELETE /api/mappings
delete_all_mappings ==
    /\ IF ~is_unlocked
       THEN /\ Returned("delete_all_mappings", "", RetHttp(400, "Keys must be unlocked"))
            /\ UNCHANGED <<current_mappings, cache_file>>
       ELSE /\ current_mappings' = EmptyMapping
            /\ clear
            /\ Returned("delete_all_mappings", "", RetHttp(200, "verwijderd"))
    /\ UNCHANGED <<kmVars, authVars, passphrase_key, upload, histVars, extVars>>

AppNext ==
    \/ \E ok \in BOOLEAN : api_login(ok)
    \/ api_logout
    \/ \E p \in RequestPassphrases : generate_keys(p)
    \/ \E p \in RequestPassphrases : unlock_keys(p)
    \/ lock_keys
    \/ upload_file_begin
    \/ \E m \in {None} \cup {Some(x) : x \in Mappings \ {EmptyMapping}} : upload_file_process(m)
    \/ upload_file_finish
    \/ reload_mappings
    \/ delete_all_mappings

AppSpec == Init /\ [][AppNext]_vars

\* The request handlers together with a direct LocalVaultCache.clear.
ClearNext ==
    \/ \E ok \in BOOLEAN : api_login(ok)
    \/ \E p \in RequestPassphrases : generate_keys(p)
    \/ \E p \in RequestPassphrases : unlock_keys(p)
    \/ lock_keys
    \/ upload_file_begin
    \/ \E m \in {None} \cup {Some(x) : x \in Mappings \ {EmptyMapping}} : upload_file_process(m)
    \/ upload_file_finish
    \/ reload_mappings
    \/ delete_all_mappings
    \/ CallClear

ClearSpec == Init /\ [][ClearNext]_vars

\* POST /api/shutdown; is_frozen is getattr(sys, 'frozen', False).  The first
\* request schedules delayed_shutdown; every request answers at once.
shutdown_app(is_frozen) ==
    /\ exited = None
    /\ IF ~shutdown_requested
       THEN /\ shutdown_requested' = TRUE
            /\ shutdown_task' = Some([is_frozen |-> is_frozen])
       ELSE UNCHANGED <<shutdown_requested, shutdown_task>>
    /\ Returned("shutdown_app", "", RetHttp(200, "Shutting down..."))
    /\ UNCHANGED <<kmVars, notKm, histVars, vaultVars, crashVars, hvVars, exited, laterVars>>

\* lifespan after its yield, which the server runs when it is stopped
\* gracefully (SIGTERM, Ctrl-C); the process ends after it.
lifespan_shutdown ==
    /\ exited = None
    /\ clear_sensitive_data
    /\ exited' = Some("lifespan")
    /\ shutdown_task' = None
    /\ Returned("lifespan", "", RetNone)
    /\ UNCHANGED <<keyFiles, cache_file, authVars, upload, tampered, fresh_salt_used,
                   vaultVars, crashVars, hvVars, shutdown_requested, laterVars>>

\* delayed_shutdown after its sleep: os._exit(0) ends a frozen process on
\* the spot, with no handler run; otherwise SIGTERM stops the server
\* gracefully.
delayed_shutdown ==
    /\ exited = None
    /\ shutdown_task # None
    /\ IF shutdown_task[1].is_frozen
       THEN /\ exited' = Some("os._exit")
            /\ shutdown_task' = None
            /\ Returned("delayed_shutdown", "", RetNone)
            /\ UNCHANGED <<kmVars, notKm, histVars, vaultVars, crashVars, hvVars,
                           shutdown_requested, laterVars>>
       ELSE lifespan_shutdown

\* The request handlers that bring secrets into memory, in a process that
\* can be shut down; no request is served once it has ended.
ShutdownNext ==
    \/ \E ok \in BOOLEAN : exited = None /\ api_login(ok)
    \/ \E p \in Passphrases : exited = None /\ generate_keys(p)
    \/ \E p \in Passphrases : exited = None /\ unlock_keys(p)
    \/ exited = None /\ upload_file_begin
    \/ \E m \in Mappings \ {EmptyMapping} : exited = None /\ upload_file_process(Some(m))
    \/ exited = None /\ upload_file_finish
    \/ \E is_frozen \in BOOLEAN : shutdown_app(is_frozen)
    \/ delayed_shutdown
    \/ lifespan_shutdown

ShutdownSpec == Init /\ [][ShutdownNext]_vars

\* ------------------------------------------------------------- concurrent key requests
\* The server runs every handler on one event loop: a handler runs until it
\* awaits, and no other handler runs meanwhile.  generate_keys and
\* unlock_keys await request.json() before they read any state; lock_keys
\* never awaits.

\* The requests sent: keys are generated under one passphrase and unlocked
\* under it or under another.
KeyRequests ==
    {[op |-> "generate_keys", passphrase |-> "CorrectHorseBatteryStaple"]}
    \cup {[op |-> "unlock_keys", passphrase |-> p] : p \in Passphrases}

\* A key request received: its handler has started and waits for its body.
ReceiveKeyRequest(r, op, passphrase) ==
    /\ deriving = None
    /\ requests[r] = None
    /\ requests' = [requests EXCEPT ![r] = Some([op |-> op, passphrase |-> passphrase,
                                                  pc |-> "json"])]
    /\ UNCHANGED <<kmVars, notKm, last, histVars, deriving, syncVars>>

\* Whether the handler of request req goes on to derive a key from the
\* passphrase: generate_keys past its two checks, unlock_keys past its two.
Derives(req) ==
    IF req.op = "generate_keys"
    THEN ~(req.passphrase = "" \/ Len(req.passphrase) < 8) /\ ~has_keys
    ELSE req.passphrase # "" /\ has_keys

\* The synchronous part of the handler of request req.
KeyRequestSync(req) ==
    IF req.op = "generate_keys" THEN generate_keys_sync(req.passphrase)
    ELSE unlock_keys_sync(req.passphrase)

\* A handler resumed after request.json() that answers 400 at once.
KeyRequestReject(r) ==
    /\ deriving = None
    /\ requests[r] # None /\ requests[r][1].pc = "json"
    /\ ~Derives(requests[r][1])
    /\ KeyRequestSync(requests[r][1])
    /\ requests' = [requests EXCEPT ![r] = None]
    /\ UNCHANGED deriving

\* A handler resumed after request.json() that passes its checks: it calls
\* generate_keypair or unlock, and with it Argon2id, on the event loop.
KeyRequestDerive(r) ==
    /\ deriving = None
    /\ requests[r] # None /\ requests[r][1].pc = "json"
    /\ Derives(requests[r][1])
    /\ deriving' = Some(r)
    /\ requests' = [requests EXCEPT ![r] = Some([requests[r][1] EXCEPT !.pc = "derive"])]
    /\ UNCHANGED <<kmVars, notKm, last, histVars, syncVars>>

\* Mutant: the handler gives up the event loop once the KeyManager has the
\* key, before the passphrase key is installed.
KeyRequestComplete_key_slot_first(r) ==
    /\ deriving = Some(r)
    /\ IF requests[r][1].op = "generate_keys"
       THEN \E private_key \in PrivateKeys, fresh \in Salts, nonce \in Nonces :
                generate_keypair(requests[r][1].passphrase, private_key, fresh, nonce)
       ELSE unlock(requests[r][1].passphrase)
    /\ deriving' = None
    /\ requests' = [requests EXCEPT ![r] = None]
    /\ Returned(requests[r][1].op, requests[r][1].passphrase, RetNone)
    /\ UNCHANGED <<notKm, tampered, fresh_salt_used, syncVars>>
\* The rest of the handler's synchronous part: the derivation ends and the
\* handler installs what it made.  generate_keys then awaits the cloud when
\* a session exists; otherwise the handler returns.
KeyRequestComplete(r) ==
    /\ deriving = Some(r)
    /\ KeyRequestSync(requests[r][1])
    /\ deriving' = None
    /\ requests' = [requests EXCEPT ![r] =
                        IF requests[r][1].op = "generate_keys" /\ session # None
                        THEN Some([requests[r][1] EXCEPT !.pc = "register"])
                        ELSE None]

\* generate_keys after uploader.register_public_key and uploader.close: ok
\* is whether neither raised.
KeyRequestRegistered(r, ok) ==
    /\ deriving = None
    /\ requests[r] # None /\ requests[r][1].pc = "register"
    /\ requests' = [requests EXCEPT ![r] = None]
    /\ Returned("generate_keys", requests[r][1].passphrase,
                IF ok THEN RetHttp(200, "Keys generated successfully")
                ELSE RetHttp(500, "Key generation failed"))
    /\ UNCHANGED <<kmVars, notKm, histVars, deriving, syncVars>>

\* Key requests in flight together, among logins and uploads.
ConcNext ==
    \/ \E r \in 1..MaxRequests, k \in KeyRequests : ReceiveKeyRequest(r, k.op, k.passphrase)
    \/ \E r \in 1..MaxRequests : KeyRequestReject(r)
    \/ \E r \in 1..MaxRequests : KeyRequestDerive(r)
    \/ \E r \in 1..MaxRequests : KeyRequestComplete(r)
    \/ \E r \in 1..MaxRequests, ok \in BOOLEAN : KeyRequestRegistered(r, ok)
    \/ deriving = None /\ lock_keys
    \/ deriving = None /\ api_login(TRUE)
    \/ deriving = None /\ upload_file_begin
    \/ deriving = None /\ upload_file_process(Some(MappingOf(PseudoIds)))
    \/ deriving = None /\ upload_file_finish

ConcSpec == Init /\ [][ConcNext]_vars

\* Every writer of a persisted artifact.  main.py constructs the KeyManager,
\* the AuthManager and the LocalVaultCache and never the HoeilaartVault, so a
\* process runs the request handlers over a data directory without a legacy
\* vault (AppRun), or it drives a HoeilaartVault and no request handler
\* (LegacyRun).
LegacyOps == {"init", "setup", "hv_unlock", "hv_lock", "hv_clear"}
LegacyRun == last.op \in LegacyOps \/ (last.op = "crash" /\ last.data = <<"setup">>)
AppRun == mapping_file = None /\ setup_flag_file = None
PersistNext ==
    \/ \E ok \in BOOLEAN : AppRun /\ api_login(ok)
    \/ AppRun /\ api_logout
    \/ \E p \in RequestPassphrases : AppRun /\ generate_keys(p)
    \/ \E p \in RequestPassphrases : AppRun /\ unlock_keys(p)
    \/ AppRun /\ lock_keys
    \/ AppRun /\ upload_file_begin
    \/ \E m \in {None} \cup {Some(x) : x \in Mappings \ {EmptyMapping}} :
           AppRun /\ upload_file_process(m)
    \/ AppRun /\ upload_file_finish
    \/ AppRun /\ reload_mappings
    \/ AppRun /\ delete_all_mappings
    \/ \E r \in RecordLists, p \in Passphrases : LegacyRun /\ CallSetup(r, p)
    \/ \E p \in Passphrases : LegacyRun /\ CallHvUnlock(p)
    \/ LegacyRun /\ CallHvLock
    \/ LegacyRun /\ CallHvClear

PersistSpec == Init /\ [][PersistNext]_vars

\* ------------------------------------------------------------- a failing disk
\* Path.write_bytes / write_text raising OSError: the target is left as it
\* was (the open failed) or cut short (the write failed after the open).
CutPem == [pem |-> [pub |-> 0]]
FailedWrite(file, cut) == {file, Some(cut)}
\* The calls of a handler that write a file and can fail.
GenerateWrites == {"public_key_path", "private_key_path"}
SetupWrites == {"mapping_path", "setup_flag_path"}

\* generate_keypair with the write named by at raising: the exception leaves
\* generate_keypair before _unlocked_private_key is assigned.
generate_keypair_write_fails(passphrase, private_key, at) ==
    /\ IF at = "public_key_path"
       THEN /\ public_key_file' \in FailedWrite(public_key_file, CutPem)
            /\ UNCHANGED private_key_file
       ELSE /\ public_key_file' = Some(PublicBytesPem(PublicKey(private_key)))
            /\ private_key_file' \in FailedWrite(private_key_file, EmptyFile)
    /\ UNCHANGED <<unlocked_private_key, gen, cycles>>

CallGenerateKeypairWriteFails(passphrase, at) ==
    \E private_key \in PrivateKeys :
        /\ generate_keypair_write_fails(passphrase, private_key, at)
        /\ ReturnedFor("generate_keypair", passphrase, [write_fails |-> at],
                       RetRaise("OSError"))
        /\ UNCHANGED <<notKm, tampered, fresh_salt_used, extVars>>

\* get_stored_salt with read_text raising OSError on a file that exists: the
\* except clause returns None.
get_stored_salt_read_fails == None

CallGetStoredSaltReadFails ==
    /\ private_key_file # None
    /\ ReturnedFor("get_stored_salt", "", [read_fails |-> "private_key_path"],
                   [kind |-> "salt", val |-> get_stored_salt_read_fails])
    /\ UNCHANGED <<kmVars, notKm, histVars, extVars>>

\* setup with the write named by at raising: the exception leaves setup
\* before the marker is written (mapping_path) or before the mapping is
\* cached (setup_flag_path).
setup_write_fails(records, passphrase, fresh, nonce, at) ==
    /\ IF at = "mapping_path"
       THEN /\ \E cut \in CutLengths :
                   mapping_file' \in FailedWrite(mapping_file,
                                                 CutBlob(Blob(fresh, nonce, <<>>), cut))
            /\ UNCHANGED setup_flag_file
       ELSE /\ save_encrypted(IndexRecords(records), passphrase, fresh, nonce)
            /\ setup_flag_file' \in FailedWrite(setup_flag_file, EmptyFile)
    /\ UNCHANGED cached_mappings

CallSetupWriteFails(records, passphrase, at) ==
    \E fresh \in Salts, nonce \in Nonces :
        /\ setup_write_fails(records, passphrase, fresh, nonce, at)
        /\ ReturnedFor("setup", passphrase, [write_fails |-> at], RetRaise("OSError"))
        /\ UNCHANGED <<kmVars, notKm, histVars, procVars, laterVars, vaultVars, crashVars, hv_setup>>

\* upload_file from the end of file.read() on, with the write of
\* LocalVaultCache.save raising: the exception leaves save_mappings_locally
\* and the handler, and the server answers 500.
upload_file_process_write_fails(vault_mapping) ==
    /\ upload # None /\ upload[1].pc = "read"
    /\ current_mappings' = DictUpdate(current_mappings, vault_mapping)
    /\ passphrase_key # None /\ current_mappings' # EmptyMapping
    /\ cache_file' \in FailedWrite(cache_file, EmptyFile)
    /\ upload' = None
    /\ ReturnedFor("upload_file", "", [write_fails |-> "cache_path"],
                   RetHttp(500, "Internal Server Error"))
    /\ UNCHANGED <<kmVars, authVars, passphrase_key, histVars, extVars>>

\* The handlers and components that persist an artifact, on a disk whose
\* reads and writes can fail; as in PersistNext, a process serves requests
\* or drives a HoeilaartVault.
StorageNext ==
    \/ \E ok \in BOOLEAN : AppRun /\ api_login(ok)
    \/ \E p \in Passphrases : AppRun /\ generate_keys(p)
    \/ AppRun /\ upload_file_begin
    \/ \E m \in Mappings \ {EmptyMapping} : AppRun /\ upload_file_process(Some(m))
    \/ \E m \in Mappings \ {EmptyMapping} : AppRun /\ upload_file_process_write_fails(m)
    \/ AppRun /\ upload_file_finish
    \/ \E p \in Passphrases, at \in GenerateWrites :
           AppRun /\ CallGenerateKeypairWriteFails(p, at)
    \/ AppRun /\ CallGetStoredSalt
    \/ AppRun /\ CallGetStoredSaltReadFails
    \/ \E r \in FileRecordLists, p \in Passphrases : LegacyRun /\ CallSetup(r, p)
    \/ \E r \in FileRecordLists, p \in Passphrases, at \in SetupWrites :
           LegacyRun /\ CallSetupWriteFails(r, p, at)
    \/ LegacyRun /\ CallHvLock

StorageSpec == Init /\ [][StorageNext]_vars

\* POST /api/keys/generate where generate_keypair succeeds and the read_text
\* of get_stored_salt then raises OSError: get_stored_salt returns None, the
\* handler skips both key assignments and answers as usual.
generate_keys_salt_read_fails(passphrase) ==
    /\ ~(passphrase = "" \/ Len(passphrase) < 8)
    /\ ~has_keys
    /\ \E private_key \in PrivateKeys, fresh \in Salts, nonce \in Nonces :
           /\ generate_keypair(passphrase, private_key, fresh, nonce)
           /\ LET salt == get_stored_salt_read_fails
              IN  IF Truthy(salt)
                  THEN LET derived_key == DeriveKey(passphrase, salt, fresh).key
                       IN  /\ passphrase_key' = Some(derived_key)
                           /\ set_encryption_key(derived_key)
                  ELSE UNCHANGED <<passphrase_key, encryption_key>>
    /\ ReturnedFor("generate_keys", passphrase, [read_fails |-> "private_key_path"],
                   RetHttp(200, "Keys generated successfully"))
    /\ UNCHANGED <<cache_file, jwt_file, session, current_mappings, upload,
                   tampered, fresh_salt_used, extVars>>

\* The request handlers that unlock, lock and upload, on a disk whose reads
\* can fail.
ReadFailNext ==
    \/ api_login(TRUE)
    \/ api_logout
    \/ \E p \in Passphrases : generate_keys(p)
    \/ \E p \in Passphrases : generate_keys_salt_read_fails(p)
    \/ \E p \in Passphrases : unlock_keys(p)
    \/ lock_keys
    \/ upload_file_begin
    \/ \E m \in Mappings \ {EmptyMapping} : upload_file_process(Some(m))
    \/ upload_file_finish

ReadFailSpec == Init /\ [][ReadFailNext]_vars

\* ------------------------------------------------------------- a crash during generate or setup
\* The process is killed inside generate_keypair or setup, which run without
\* suspension, and is started again: the files are as the writes done so far
\* left them (write_bytes and write_text write in place: the open truncates
\* the file, the close completes it) and nothing is held in memory.
GenerateCrashPoints == {"in public_key_path", "after public_key_path",
                        "in private_key_path", "after private_key_path"}
SetupCrashPoints == {"in mapping_path", "after mapping_path",
                     "in setup_flag_path", "after setup_flag_path"}

\* The memory of a process just started (AppState, AuthManager.__init__,
\* KeyManager.__init__, HoeilaartVault.__init__).
Restarted ==
    /\ unlocked_private_key' = None
    /\ session' = None /\ encryption_key' = None
    /\ passphrase_key' = None /\ current_mappings' = EmptyMapping /\ upload' = None
    /\ cached_mappings' = None

CrashGenerateKeypair(passphrase, point) ==
    \E private_key \in PrivateKeys, fresh \in Salts, nonce \in Nonces :
        LET public_key_pem == PublicBytesPem(PublicKey(private_key))
            derived == DeriveKey(passphrase, None, fresh)
            ciphertext == AesGcmEncrypt(derived.key, nonce, PrivateBytesRaw(private_key))
            text == JsonDumps(EncryptedData(derived.salt, nonce, ciphertext))
        IN  /\ public_key_file' = IF point = "in public_key_path" THEN Some(CutPem)
                                  ELSE Some(public_key_pem)
            /\ \/ /\ point \in {"in public_key_path", "after public_key_path"}
                  /\ UNCHANGED private_key_file
               \/ /\ point = "in private_key_path"
                  /\ private_key_file' \in {Some(EmptyFile), Some(PartOf(text))}
               \/ /\ point = "after private_key_path"
                  /\ private_key_file' = Some(text)
            /\ Restarted
            /\ crashed' = Some([op |-> "generate_keypair", point |-> point,
                                public_key_pem |-> public_key_pem, text |-> text])
            /\ ReturnedFor("crash", passphrase, "generate_keypair", RetNone)
            /\ UNCHANGED <<cache_file, jwt_file, histVars, vaultVars, saving, procVars, laterVars,
                           mapping_file, setup_flag_file, hv_setup>>

CrashSetup(records, passphrase, point) ==
    \E fresh \in Salts, nonce \in Nonces :
        LET indexed_mapping == IndexRecords(records)
            derived == hv_derive_key(passphrase, None, fresh)
            store == Blob(derived.salt, nonce,
                          AesGcmEncrypt(derived.key, nonce, JsonDumps(indexed_mapping)))
            marker == JsonDumps([setup_complete |-> TRUE,
                                 patient_count |-> Cardinality(DOMAIN indexed_mapping)])
        IN  /\ \/ /\ point = "in mapping_path"
                  /\ \E cut \in CutLengths : mapping_file' = Some(CutBlob(store, cut))
               \/ /\ point # "in mapping_path"
                  /\ mapping_file' = Some(store)
            /\ \/ /\ point \in {"in mapping_path", "after mapping_path"}
                  /\ UNCHANGED setup_flag_file
               \/ /\ point = "in setup_flag_path"
                  /\ setup_flag_file' \in {Some(EmptyFile), Some(PartOf(marker))}
               \/ /\ point = "after setup_flag_path"
                  /\ setup_flag_file' = Some(marker)
            /\ Restarted
            /\ crashed' = Some([op |-> "setup", point |-> point,
                                store |-> store, marker |-> marker])
            /\ ReturnedFor("crash", passphrase, "setup", RetNone)
            /\ UNCHANGED <<keyFiles, cache_file, jwt_file, histVars, vaultVars, saving,
                           procVars, laterVars, hv_setup>>

\* The KeyManager and the HoeilaartVault, killed at any point of the writes
\* of generate_keypair or setup and used again after the restart.  A run
\* follows the calls up to one crash and the unlocks after it;
\* generate_keypair is called as generate_keys calls it, when has_keys is
\* false.
CrashWriteNext ==
    \/ \E p \in Passphrases : AppRun /\ crashed = None /\ ~has_keys /\ CallGenerateKeypair(p)
    \/ \E p \in Passphrases, point \in GenerateCrashPoints :
           AppRun /\ crashed = None /\ ~has_keys /\ CrashGenerateKeypair(p, point)
    \/ \E p \in Passphrases : AppRun /\ CallUnlock(p)
    \/ \E r \in FileRecordLists, p \in Passphrases :
           LegacyRun /\ crashed = None /\ CallSetup(r, p)
    \/ \E r \in FileRecordLists, p \in Passphrases, point \in SetupCrashPoints :
           LegacyRun /\ crashed = None /\ CrashSetup(r, p, point)
    \/ \E p \in Passphrases : LegacyRun /\ CallHvUnlock(p)

CrashWriteSpec == Init /\ [][CrashWriteNext]_vars

\* ------------------------------------------------------------- UpdateChecker
\* UpdateInfo, by the members the checker's callers read.
UpdateInfo(latest_version, update_available) ==
    [latest_version |-> latest_version, update_available |-> update_available]
\* UpdateInfo(current_version, current_version, update_available=False)
NoUpdate == UpdateInfo("current", FALSE)
\* What _check_github_api can return: None on any error or non-200 answer,
\* else the latest release or tag.
GithubResults == {None, Some(UpdateInfo("release", TRUE)), Some(UpdateInfo("release", FALSE))}
\* What _check_version_file can return.
VersionFileResults == {None, Some(UpdateInfo("version file", TRUE))}
\* What the git fallback can compute from tags and commit hashes.
GitResults == {UpdateInfo("tag", TRUE), UpdateInfo("new commits", TRUE), NoUpdate}
\* The awaits of the git fallback, in order: fetch, rev-parse HEAD,
\* rev-parse origin/main, fetch --tags, tag --sort.
GitSteps == <<"fetch", "rev-parse HEAD", "rev-parse origin/main", "fetch --tags", "tag">>

otherThanUpd == <<kmVars, notKm, histVars, vaultVars, crashVars, hvVars, procVars,
                  concVars, nonceVars>>

\* UpdateChecker(__version__), constructed by lifespan at startup;
\* is_docker is is_running_in_docker().
UpdateCheckerInit(is_docker) ==
    /\ update_checker = None
    /\ update_checker' = Some([latest_info |-> None, check_in_progress |-> FALSE,
                               is_docker |-> is_docker])
    /\ Returned("UpdateChecker", "", RetNone)
    /\ UNCHANGED <<otherThanUpd, checks>>

\* What a caller of check_for_updates is told: the caller, whether a check
\* was in flight when it called, and what was cached then.
CheckReturned(c, in_progress, ret) ==
    ReturnedFor("check_for_updates", "",
                [caller |-> c, in_progress |-> in_progress,
                 cached |-> update_checker[1].latest_info], ret)

\* A check leaves: the flag is reset by the finally clause, latest_info is
\* set when the path taken sets it, and the caller gets ret.
CheckLeaves(c, latest_info, ret) ==
    /\ update_checker' = Some([update_checker[1] EXCEPT !.latest_info = latest_info,
                                                         !.check_in_progress = FALSE])
    /\ checks' = [checks EXCEPT ![c] = None]
    /\ CheckReturned(c, FALSE, ret)

\* check_for_updates() called by c, up to its first await: with a check in
\* flight it returns at once; otherwise it sets the flag and awaits
\* _check_github_api.
check_for_updates(c) ==
    /\ update_checker # None
    /\ checks[c] = None
    /\ IF update_checker[1].check_in_progress
       THEN /\ CheckReturned(c, TRUE,
                   RetValue("info", IF update_checker[1].latest_info # None
                                    THEN update_checker[1].latest_info[1]
                                    ELSE NoUpdate))
            /\ UNCHANGED <<update_checker, checks>>
       ELSE /\ update_checker' = Some([update_checker[1] EXCEPT !.check_in_progress = TRUE])
            /\ checks' = [checks EXCEPT ![c] = Some([pc |-> "github", step |-> 0])]
            /\ UNCHANGED last
    /\ UNCHANGED otherThanUpd

\* _check_github_api has returned info: a result is cached and returned;
\* without one a Docker install reads the version file and any other starts
\* the git fallback.
check_github_returns(c, info, from_file) ==
    /\ checks[c] # None /\ checks[c][1].pc = "github"
    /\ IF info # None
       THEN CheckLeaves(c, info, RetValue("info", info[1]))
       ELSE IF update_checker[1].is_docker
       THEN IF from_file # None
            THEN CheckLeaves(c, from_file, RetValue("info", from_file[1]))
            ELSE CheckLeaves(c, Some(NoUpdate), RetValue("info", NoUpdate))
       ELSE /\ checks' = [checks EXCEPT ![c] = Some([pc |-> "git", step |-> 1])]
            /\ UNCHANGED <<update_checker, last>>
    /\ UNCHANGED otherThanUpd

\* One run_in_executor of the git fallback has returned; after the last the
\* result is computed, cached and returned.
check_git_returns(c, info) ==
    /\ checks[c] # None /\ checks[c][1].pc = "git"
    /\ IF checks[c][1].step < Len(GitSteps)
       THEN /\ checks' = [checks EXCEPT ![c] = Some([pc |-> "git", step |-> checks[c][1].step + 1])]
            /\ UNCHANGED <<update_checker, last>>
       ELSE CheckLeaves(c, Some(info), RetValue("info", info))
    /\ UNCHANGED otherThanUpd

\* Mutant: the flag is reset only on the paths that return a result.
check_raises_flag_kept(c, exc) ==
    /\ checks[c] # None
    /\ exc = "CancelledError" \/ checks[c][1].pc # "github"
    /\ checks' = [checks EXCEPT ![c] = None]
    /\ CheckReturned(c, FALSE, IF exc = "CancelledError" THEN RetRaise(exc)
                               ELSE RetValue("info", NoUpdate))
    /\ UNCHANGED <<update_checker, otherThanUpd>>
\* An await of the check raises.  _check_github_api lets only a
\* cancellation through; in the git fallback an Exception is caught and
\* no-update is returned, a cancellation propagates.  The finally clause
\* runs on both.
check_raises(c, exc) ==
    /\ checks[c] # None
    /\ exc = "CancelledError" \/ checks[c][1].pc # "github"
    /\ CheckLeaves(c, update_checker[1].latest_info,
                   IF exc = "CancelledError" THEN RetRaise(exc)
                   ELSE RetValue("info", NoUpdate))
    /\ UNCHANGED otherThanUpd

\* The update checker with several callers: the startup task and requests
\* to /api/update/check.
UpdateNext ==
    \/ \E is_docker \in BOOLEAN : UpdateCheckerInit(is_docker)
    \/ \E c \in 1..MaxCallers : check_for_updates(c)
    \/ \E c \in 1..MaxCallers, info \in GithubResults, from_file \in VersionFileResults :
           check_github_returns(c, info, from_file)
    \/ \E c \in 1..MaxCallers, info \in GitResults : check_git_returns(c, info)
    \/ \E c \in 1..MaxCallers, exc \in {"RuntimeError", "CancelledError"} : check_raises(c, exc)

UpdateSpec == Init /\ [][UpdateNext]_vars

\* ------------------------------------------------------------- nonces
\* Every encryption under a passphrase-derived key draws its nonce from
\* os.urandom, modelled as a source that never produces a value twice.

\* The nonces held in the persisted records.
JsonNonce(file) == IF file = None THEN {} ELSE {B64Decode(JsonLoads(file[1]).nonce)}
StoredNonces ==
    JsonNonce(private_key_file) \cup JsonNonce(cache_file) \cup JsonNonce(jwt_file)
    \cup (IF mapping_file = None THEN {} ELSE {mapping_file[1].nonce})

\* One encryption made at a site: the key and nonce the ciphertext was made
\* under, and whether that nonce was among the persisted ones before.
Encryption(site, kdf, ciphertext) ==
    [site |-> site, kdf |-> kdf, key |-> ciphertext.key, nonce |-> ciphertext.nonce,
     reused |-> ciphertext.nonce \in StoredNonces]

\* A call that encrypts, with the draws of os.urandom it makes.
DrawsNonce == urandom < MaxEncryptions /\ urandom' = urandom + 1

\* KeyManager.generate_keypair(passphrase) with its nonce from os.urandom.
NonceGenerateKeypair(passphrase) ==
    \E private_key \in PrivateKeys, fresh \in Salts :
        /\ DrawsNonce
        /\ generate_keypair(passphrase, private_key, fresh, UrandomBytes(NONCE_LEN, 1))
        /\ encryptions' = Append(encryptions,
               Encryption("generate_keypair", "argon2id",
                          B64Decode(JsonLoads(private_key_file'[1]).ciphertext)))
        /\ Returned("generate_keypair", passphrase,
                    RetValue("pubkey", PublicBytesPem(PublicKey(private_key))))
        /\ UNCHANGED <<notKm, tampered, fresh_salt_used, vaults, held, crashVars, hvVars,
                       procVars, concVars, updVars>>

\* LocalVaultCache.save(mapping, key) with its nonce from os.urandom.
NonceSave(mapping, key) ==
    /\ DrawsNonce
    /\ save(mapping, key, UrandomBytes(NONCE_LEN, 1))
    /\ encryptions' = Append(encryptions,
           Encryption("save", "argon2id", B64Decode(JsonLoads(cache_file'[1]).ciphertext)))
    /\ ReturnedFor("save", "", [mapping |-> mapping, key |-> key], RetNone)
    /\ UNCHANGED <<kmVars, authVars, appVars, histVars, vaults, held, crashVars, hvVars,
                   procVars, concVars, updVars>>

\* AuthManager.set_encryption_key(key)
NonceSetEncryptionKey(key) ==
    /\ set_encryption_key(key)
    /\ Returned("set_encryption_key", "", RetNone)
    /\ UNCHANGED <<kmVars, cache_file, session, jwt_file, appVars, histVars, extVars>>

\* AuthManager.login accepted by the cloud, whose _save_jwt encrypts when a
\* key is set, with its nonce from os.urandom.
NonceLogin ==
    /\ DrawsNonce
    /\ login(TRUE, UrandomBytes(NONCE_LEN, 1))
    /\ encryptions' =
           IF encryption_key = None THEN encryptions
           ELSE Append(encryptions,
                    Encryption("_save_jwt", "argon2id",
                               B64Decode(JsonLoads(jwt_file'[1]).ciphertext)))
    /\ Returned("login", "", RetBool(TRUE))
    /\ UNCHANGED <<kmVars, cache_file, appVars, histVars, vaults, held, crashVars, hvVars,
                   procVars, concVars, updVars>>

\* HoeilaartVault.setup(records, passphrase), whose _save_encrypted draws
\* its nonce from os.urandom.
NonceSetup(records, passphrase) ==
    \E fresh \in Salts :
        /\ DrawsNonce
        /\ setup(records, passphrase, fresh, UrandomBytes(NONCE_LEN, 1))
        /\ encryptions' = Append(encryptions,
               Encryption("_save_encrypted", "pbkdf2", mapping_file'[1].rest[1]))
        /\ Returned("setup", passphrase, RetNone)
        /\ UNCHANGED <<kmVars, notKm, histVars, vaults, held, crashVars, hv_setup,
                       procVars, concVars, updVars>>

\* The four encryptions under passphrase-derived keys, in any order and
\* under any of the keys.
NonceNext ==
    \/ \E p \in Passphrases : NonceGenerateKeypair(p)
    \/ \E k \in DerivedKeys : NonceSave(MappingOf(PseudoIds), k)
    \/ \E k \in DerivedKeys : NonceSetEncryptionKey(k)
    \/ NonceLogin
    \/ \E p \in Passphrases : NonceSetup(<<Record(1)>>, p)

NonceSpec == Init /\ [][NonceNext]_vars

\* ------------------------------------------------------------- properties
\* The private-key record on disk is the one generate_keypair wrote.
Intact == gen # None /\ private_key_file = Some(gen[1].text)

\* C1: KeyManager lifecycle.  A generate_keypair call leaves the manager
\* unlocked; a lock call leaves it locked; an unlock call with the passphrase
\* the keypair was generated with returns True and leaves it unlocked, in
\* every state the calls can reach, so after any number of lock/unlock cycles.
C1_Lifecycle ==
    [][/\ last'.op = "generate_keypair" => is_unlocked'
       /\ last'.op = "lock" => ~is_unlocked'
       /\ (last'.op = "unlock" /\ gen # None /\ last'.arg = gen[1].passphrase)
              => (IsBool(last'.ret, TRUE) /\ is_unlocked')]_vars

\* C1 witness: the second unlock with the right passphrase after a lock
\* has just returned True.
C1_Witness ==
    /\ cycles = MaxCycles
    /\ last.op = "unlock" /\ last.arg = gen[1].passphrase
    /\ IsBool(last.ret, TRUE)
    /\ is_unlocked

\* C2: with a keypair persisted, unlock returns a boolean and never raises,
\* and it returns False both for a passphrase other than the one the keypair
\* was generated with and for a record whose salt, nonce or ciphertext was
\* altered: the result does not tell the two causes apart.
C2_UnlockFailsClosed ==
    [][(last'.op = "unlock" /\ has_keys)
          => /\ last'.ret.kind = "bool"
             /\ (last'.arg # gen[1].passphrase \/ ~Intact) => IsBool(last'.ret, FALSE)]_vars

\* C2 witness: unlock with the right passphrase has returned False on an
\* altered record.
C2_Witness ==
    /\ last.op = "unlock" /\ has_keys
    /\ last.arg = gen[1].passphrase
    /\ ~Intact
    /\ IsBool(last.ret, FALSE)

\* C3: an unlock that returns False changes neither the in-memory key nor
\* the key files: a locked manager stays locked, an unlocked one keeps the
\* key it held.
C3_FailedUnlockNoTransition ==
    [][(last'.op = "unlock" /\ IsBool(last'.ret, FALSE)) => UNCHANGED kmVars]_vars

\* C3 witness: an unlock has failed while the manager was unlocked, and the
\* manager still holds the generated key.
C3_Witness ==
    /\ last.op = "unlock" /\ IsBool(last.ret, FALSE)
    /\ unlocked_private_key = Some(gen[1].private_key)

\* C4 (as claimed): generate_keypair called with a keypair persisted raises
\* and leaves the key files and the in-memory key as they were.
C4_GenerateRefusesExisting ==
    [][(last'.op = "generate_keypair" /\ has_keys)
          => (last'.ret.kind = "raise" /\ UNCHANGED kmVars)]_vars

\* C5: unlock called with no keypair persisted raises ValueError, where a
\* wrong passphrase yields the return value False, and changes nothing.
C5_UnlockNoKeys ==
    [][last'.op = "unlock"
          => /\ ~has_keys => (IsRaise(last'.ret, "ValueError") /\ UNCHANGED kmVars /\ ~has_keys')
             /\ has_keys => last'.ret.kind = "bool"]_vars

\* C5 witness: unlock has raised with nothing persisted.
C5_Witness ==
    /\ last.op = "unlock" /\ IsRaise(last.ret, "ValueError")
    /\ public_key_file = None /\ private_key_file = None
    /\ ~is_unlocked

\* C6: lock leaves the manager locked and the key files unchanged, and a
\* lock on an already locked manager changes nothing (lock;lock = lock).
C6_LockIdempotent ==
    [][last'.op = "lock"
          => /\ ~is_unlocked'
             /\ UNCHANGED keyFiles
             /\ ~is_unlocked => UNCHANGED kmVars]_vars

\* C6 witness: lock has run on a manager holding persisted keys.
C6_Witness ==
    /\ last.op = "lock"
    /\ has_keys
    /\ ~is_unlocked

\* C7: perform_key_exchange returns a shared secret only when unlocked,
\* raises ValueError when not unlocked, and never changes any state.
C7_ExchangeRequiresUnlocked ==
    [][last'.op = "perform_key_exchange"
          => /\ UNCHANGED <<kmVars, notKm>>
             /\ ~is_unlocked => IsRaise(last'.ret, "ValueError")
             /\ last'.ret.kind = "secret" => is_unlocked]_vars

\* C7 witness: the exchange has raised on a locked manager that has keys.
C7_Witness ==
    /\ last.op = "perform_key_exchange"
    /\ IsRaise(last.ret, "ValueError")
    /\ has_keys /\ ~is_unlocked

\* C8: whenever the manager is unlocked, after generate_keypair or after any
\* later unlock, the key exchange with every peer key yields what the
\* generated private key yields: unlock restores the generated key.
C8_UnlockRestoresKey ==
    is_unlocked =>
        /\ gen # None
        /\ unlocked_private_key = Some(gen[1].private_key)
        /\ \A peer \in PeerKeys :
               ExchangeOk(peer) =>
                   perform_key_exchange(peer) =
                       RetValue("secret", Exchange(gen[1].private_key, peer))

\* C8 witness: an exchange has returned a secret after a lock/unlock cycle.
C8_Witness ==
    /\ cycles >= 1
    /\ is_unlocked
    /\ last.op = "perform_key_exchange"
    /\ last.ret.kind = "secret"

\* C9: once generate_keypair has persisted a keypair, unlock, lock, the key
\* exchange, get_stored_salt, the cache's save, load and clear, logout and
\* clear_sensitive_data leave the private-key record and the public key as
\* they are; get_stored_salt returns None exactly when no private-key
\* record is persisted, and otherwise the salt generate_keypair wrote.
C9_KeyFilesReadOnly ==
    /\ [](/\ (get_stored_salt = None) <=> (private_key_file = None)
          /\ gen # None => get_stored_salt = Some(gen[1].salt))
    /\ [][last'.op \in {"unlock", "lock", "perform_key_exchange", "get_stored_salt",
                        "save", "load", "clear", "logout", "clear_sensitive_data"}
             => UNCHANGED keyFiles]_vars

\* C9 witness: get_stored_salt has returned the generated salt after a
\* lock/unlock cycle and a cache save.
C9_Witness ==
    /\ last.op = "get_stored_salt"
    /\ cycles >= 1
    /\ cache_file # None
    /\ last.ret.val = Some(gen[1].salt)
    /\ private_key_file = Some(gen[1].text)

OriginalVault == vaults[Len(vaults)].vault
\* The held vault was decrypted with the recipient's private key.
DecryptedByRecipient ==
    /\ last.op = "decrypt_mapping"
    /\ last.data = <<held[1].recipient>>

\* C11: decrypt_mapping with the recipient's private key, applied to the
\* vault encrypt_mapping made for the recipient's public key, returns the
\* mapping that was encrypted, for every mapping (the empty one too), every
\* keypair and every metadata value.
C11_EnvelopeRoundTrip ==
    (DecryptedByRecipient /\ held[1].altered = {})
        => /\ last.ret.kind = "mapping"
           /\ last.ret.val = <<held[1].mapping>>

\* C11 witness: the empty mapping, encrypted with metadata attached, has
\* been decrypted by the recipient.
C11_Witness ==
    /\ DecryptedByRecipient /\ held[1].altered = {}
    /\ held[1].mapping = EmptyMapping
    /\ held[1].vault.metadata # EmptyMetadata
    /\ last.ret.kind = "mapping"

\* The key exchange decrypt_mapping makes with private key k on the held
\* vault is refused, or yields another secret than the one the DEK was
\* wrapped under.
OtherSecret(k) ==
    LET raw == held[1].vault.ephemeral_public_key
        original == FromPublicBytes(OriginalVault.ephemeral_public_key).pub
    IN  \/ ~FromPublicBytesOk(raw)
        \/ ~ExchangeOk(FromPublicBytes(raw).pub)
        \/ Exchange(k, FromPublicBytes(raw).pub) # Exchange(held[1].recipient, original)

\* C12 (as claimed): decrypt_mapping raises whenever the private key is not
\* the recipient's or the ciphertext, the nonce, the wrapped DEK or the
\* ephemeral public key of the vault was altered, and returns the mapping
\* when only the metadata was altered.
C12_DecryptRaisesOnAnyAlteration ==
    last.op = "decrypt_mapping"
        => /\ (\/ last.data # <<held[1].recipient>>
               \/ held[1].altered \cap {"ciphertext", "nonce", "wrapped_dek",
                                        "ephemeral_public_key"} # {})
                  => last.ret.kind = "raise"
           /\ (last.data = <<held[1].recipient>> /\ held[1].altered \subseteq {"metadata"})
                  => (last.ret.kind = "mapping" /\ last.ret.val = <<held[1].mapping>>)

\* C12 (amended): decrypt_mapping raises whenever the private key is not the
\* recipient's, the ciphertext, the nonce or the wrapped DEK was altered, or
\* the ephemeral public key was altered so that the key exchange is refused
\* or yields another shared secret.  Whatever it returns is the complete
\* mapping that was encrypted, never an empty or partial one: that is what
\* it returns when only the metadata, or only the bit of the ephemeral
\* public key that X25519 ignores, was altered.
C12_DecryptRaisesOrReturnsAll ==
    last.op = "decrypt_mapping"
        => /\ (\/ last.data # <<held[1].recipient>>
               \/ held[1].altered \cap {"ciphertext", "nonce", "wrapped_dek"} # {}
               \/ OtherSecret(last.data[1]))
                  => last.ret.kind = "raise"
           /\ last.ret.kind # "raise"
                  => (last.ret.kind = "mapping" /\ last.ret.val = <<held[1].mapping>>)
           /\ (/\ last.data = <<held[1].recipient>>
               /\ held[1].altered \subseteq {"metadata", "ephemeral_public_key"}
               /\ ~OtherSecret(last.data[1]))
                  => last.ret.kind = "mapping"

\* C12 witness: decrypt_mapping has raised for the recipient's own key on a
\* vault whose wrapped DEK was altered.
C12_Witness ==
    /\ DecryptedByRecipient
    /\ held[1].altered = {"wrapped_dek"}
    /\ IsRaise(last.ret, "InvalidUnwrap")
    /\ held[1].mapping # EmptyMapping

\* C13: any two encrypt_mapping calls on the same mapping and recipient key,
\* anywhere in a sequence of calls, return vaults that differ in ciphertext,
\* nonce, wrapped DEK and ephemeral public key, and were made with different
\* DEKs.
C13_EncryptFresh ==
    \A i, j \in 1..Len(vaults) :
        (i < j /\ vaults[i].mapping = vaults[j].mapping
               /\ vaults[i].recipient = vaults[j].recipient)
            => /\ vaults[i].vault.ciphertext # vaults[j].vault.ciphertext
               /\ vaults[i].vault.nonce # vaults[j].vault.nonce
               /\ vaults[i].vault.wrapped_dek # vaults[j].vault.wrapped_dek
               /\ vaults[i].vault.ephemeral_public_key # vaults[j].vault.ephemeral_public_key
               /\ vaults[i].dek # vaults[j].dek

\* C13 witness: the same non-empty mapping has been encrypted twice for the
\* same recipient.
C13_Witness ==
    /\ Len(vaults) = MaxVaults
    /\ vaults[1].mapping = vaults[MaxVaults].mapping
    /\ vaults[1].recipient = vaults[MaxVaults].recipient
    /\ vaults[1].mapping # EmptyMapping
    /\ last.op = "encrypt_mapping"

\* C14: load(K) right after save(D, K) returns D, for every derived key K
\* and every mapping D; for the empty mapping it returns the empty mapping,
\* not None.
C14_CacheRoundTrip ==
    last.op = "save" => load(last.data[1].key) = Some(last.data[1].mapping)

\* C14 witness: the empty mapping has just been saved and a key loads it
\* back.
C14_Witness ==
    /\ last.op = "save"
    /\ \E k \in DerivedKeys : load(k) = Some(EmptyMapping)

\* The texts save(m, k) can leave in the cache file.
SavedTexts(m, k) ==
    {JsonDumps([nonce |-> B64Encode(n),
                ciphertext |-> B64Encode(AesGcmEncrypt(k, n, JsonDumps(m)))]) : n \in Nonces}

\* C15: load returns None, and never raises, when the cache file is
\* missing, when the key is not the one save was given, and when the file
\* was cut short, corrupted or lost a member: it returns a mapping only from
\* a file that is exactly what save wrote under the same key, so no
\* alteration of a saved file leaves it readable; load leaves the file as it
\* is.
C15_LoadFailsAbsent ==
    /\ [](cache_file = None => \A k \in DerivedKeys : load(k) = None)
    /\ [](last.op = "save"
             => \A other \in DerivedKeys \ {last.data[1].key} : load(other) = None)
    /\ [](\A k \in DerivedKeys :
              load(k) # None => \E m \in Mappings : /\ cache_file[1] \in SavedTexts(m, k)
                                                     /\ load(k) = Some(m))
    /\ [][(TamperCache /\ tampered = 0) => \A k \in DerivedKeys : load(k)' = None]_vars
    /\ [][last'.op = "load" => (UNCHANGED cache_file /\ last'.ret.kind = "mapping")]_vars

\* C15 witness: load has returned None on a file that is present and that
\* no key opens any more.
C15_Witness ==
    /\ last.op = "load" /\ last.ret.val = None
    /\ cache_file # None
    /\ tampered = 1
    /\ \A k \in DerivedKeys : load(k) = None

\* C16 (as claimed): after a crash during save the cache file holds the
\* complete record it held before the save or the complete new record, and
\* load with the key of the interrupted save returns the new mapping or what
\* it returned before.
C16_SaveAtomic ==
    last.op = "crash"
        => /\ (cache_file = crashed[1].old \/ cache_file = Some(crashed[1].new))
           /\ (cache_file # None => JsonLoadsOk(cache_file[1]))
           /\ load(crashed[1].key) # None

\* C17: clear leaves no cache file, so that load returns None for every key,
\* and a clear with no cache file changes nothing and returns normally; a
\* delete-all-mappings request that is accepted leaves the in-memory mapping
\* empty and the cache file absent, and while the cache file is absent an
\* unlock or reload request leaves the in-memory mapping as it is.
C17_ClearIdempotent ==
    /\ [][last'.op = "clear"
             => /\ cache_file' = None
                /\ \A k \in DerivedKeys : load(k)' = None
                /\ last'.ret = RetNone
                /\ cache_file = None => UNCHANGED <<cache_file, current_mappings, kmVars>>]_vars
    /\ [][(/\ last'.op = "delete_all_mappings"
           /\ last'.ret.kind = "http" /\ last'.ret.val[1] = 200)
             => /\ current_mappings' = EmptyMapping
                /\ cache_file' = None
                /\ \A k \in DerivedKeys : LoadedLocally(Some(k))' = None]_vars
    /\ [][(cache_file = None /\ last'.op \in {"unlock_keys", "reload_mappings"})
             => UNCHANGED <<current_mappings, cache_file>>]_vars

\* C17 witness: a delete-all-mappings request has been accepted in a session
\* that is logged in and holds a cache key, after a lock/unlock cycle.
C17_Witness ==
    /\ last.op = "delete_all_mappings"
    /\ last.ret.kind = "http" /\ last.ret.val[1] = 200
    /\ session # None /\ passphrase_key # None
    /\ cache_file = None
    /\ current_mappings = EmptyMapping
    /\ cycles >= 1

\* C18: decrypt_original_file raises ValueError for a password other than
\* the one the file was made with, for a corrupted file and for a file cut
\* below the 28-byte header; with the right password and the file as made it
\* returns the records that were encrypted; it changes neither the vault's
\* files nor its in-memory mapping.
C18_DecryptOriginalFile ==
    /\ [](last.op = "decrypt_original_file"
            => LET file == last.data[1]
               IN  /\ (last.arg # file.password \/ ~file.intact)
                          => IsRaise(last.ret, "ValueError")
                   /\ (last.arg = file.password /\ file.intact)
                          => (last.ret.kind = "records" /\ last.ret.val = <<file.records>>))
    /\ [][last'.op = "decrypt_original_file" => UNCHANGED hvVars]_vars

\* C18 witness: with a vault set up, decrypt_original_file has raised for
\* the right password on a file cut below the header.
C18_Witness ==
    /\ last.op = "decrypt_original_file"
    /\ last.arg = last.data[1].password
    /\ last.data[1].data.rest = None
    /\ IsRaise(last.ret, "ValueError")
    /\ is_setup_complete /\ hv_is_unlocked

\* The pseudoniems carried by the records of a list.
Pseudoniems(records) == {records[i].pseudoniem : i \in 1..Len(records)} \ {0}
\* The completion marker, read back.
Marker == JsonLoads(setup_flag_file[1])
\* After setup: the marker is persisted with its flag set, the store is
\* persisted and opens with the passphrase, and the vault is unlocked with
\* the records indexed by pseudoniem in memory.
SetupDone ==
    LET records == hv_setup[1].records
    IN  /\ setup_flag_file # None /\ JsonLoadsOk(setup_flag_file[1])
        /\ Marker.setup_complete = TRUE
        /\ mapping_file # None
        /\ TryDecryptBlob(mapping_file[1], hv_setup[1].passphrase).ok
        /\ hv_is_unlocked
        /\ DOMAIN cached_mappings[1] = Pseudoniems(records)
        /\ \A i \in 1..Len(records) :
               (/\ records[i].pseudoniem # 0
                /\ \A j \in (i + 1)..Len(records) : records[j].pseudoniem # records[i].pseudoniem)
                   => cached_mappings[1][records[i].pseudoniem].insz = records[i].origineel_id
        /\ TryDecryptBlob(mapping_file[1], hv_setup[1].passphrase).value = cached_mappings[1]

\* C19 (as claimed): after setup, for every list of records, the marker's
\* count is the number of records supplied, the flag is set, the store is
\* persisted and the vault is unlocked with the re-indexed mapping.
C19_SetupCountsRecords ==
    last.op = "setup"
        => /\ SetupDone
           /\ Marker.patient_count = Len(hv_setup[1].records)

\* C19 (amended): after setup, for every list of records, the marker's count
\* is the number of entries of the re-indexed mapping, that is the number
\* of distinct pseudoniems the records carry, which is the number of records
\* when each record carries a pseudoniem of its own; the flag is set, the
\* store is persisted and the vault is unlocked with the re-indexed mapping.
C19_SetupCountsEntries ==
    last.op = "setup"
        => /\ SetupDone
           /\ Marker.patient_count = Cardinality(Pseudoniems(hv_setup[1].records))
           /\ Marker.patient_count = Cardinality(DOMAIN cached_mappings[1])
           /\ (Cardinality(Pseudoniems(hv_setup[1].records)) = Len(hv_setup[1].records))
                  => Marker.patient_count = Len(hv_setup[1].records)

\* C19 witness: setup has run on a list of the greatest length whose
\* records carry pseudoniems of their own.
C19_Witness ==
    /\ last.op = "setup"
    /\ Len(hv_setup[1].records) = MaxRecords
    /\ Cardinality(Pseudoniems(hv_setup[1].records)) = MaxRecords
    /\ Marker.patient_count = MaxRecords
    /\ hv_is_unlocked

\* The persisted store is the one the last setup wrote.
StoreIntact == hv_setup # None /\ mapping_file = Some(hv_setup[1].store)

\* C20: unlock returns a boolean and never raises; it returns False with no
\* store persisted, with a store cut below the 28-byte header, with a
\* passphrase other than the one given to setup and with a corrupted store;
\* when it returns True the store opened under the passphrase and the
\* in-memory mapping is the decrypted one.
C20_HvUnlockFailsClosed ==
    [][last'.op = "hv_unlock"
          => /\ last'.ret.kind = "bool"
             /\ mapping_file = None => IsBool(last'.ret, FALSE)
             /\ (mapping_file # None /\ mapping_file[1].rest = None) => IsBool(last'.ret, FALSE)
             /\ (hv_setup # None /\ last'.arg # hv_setup[1].passphrase) => IsBool(last'.ret, FALSE)
             /\ ~StoreIntact => IsBool(last'.ret, FALSE)
             /\ IsBool(last'.ret, TRUE)
                    => /\ StoreIntact /\ last'.arg = hv_setup[1].passphrase
                       /\ cached_mappings' = Some(IndexRecords(hv_setup[1].records))
                       /\ UNCHANGED <<mapping_file, setup_flag_file>>]_vars

\* C20 witness: unlock has returned False for the right passphrase on a
\* store cut below the header.
C20_Witness ==
    /\ last.op = "hv_unlock" /\ IsBool(last.ret, FALSE)
    /\ hv_setup # None /\ last.arg = hv_setup[1].passphrase
    /\ mapping_file # None /\ mapping_file[1].rest = None

\* C21 (as claimed): an unlock that returns False changes nothing: the
\* in-memory mapping, and so whether the vault is unlocked, and the
\* persisted store and marker are as before the call.
C21_FailedUnlockNoTransition ==
    [][(last'.op = "hv_unlock" /\ IsBool(last'.ret, FALSE))
          => UNCHANGED <<cached_mappings, mapping_file, setup_flag_file>>]_vars

\* The pseudonymous ids of a list.
IdsOf(pseudo_ids) == {pseudo_ids[i] : i \in 1..Len(pseudo_ids)}
\* The mapping the vault holds while unlocked, as the last setup indexed it.
SetupMapping == IndexRecords(hv_setup[1].records)
\* The three lookups.
Lookups == {"resolve", "resolve_batch", "get_all_mappings"}

\* C22: resolve, resolve_batch and get_all_mappings never raise and change
\* neither the in-memory mapping nor any persisted file; locked, they return
\* None or an empty dict; unlocked, resolve(id) returns the cached record of
\* id or None for an id the mapping does not hold, resolve_batch returns
\* exactly the entries of the requested ids the mapping holds, and
\* get_all_mappings returns every entry; adding an entry to, or removing one
\* from, the dict get_all_mappings returned leaves the cache as it was.
C22_LookupsReadOnly ==
    /\ [](last.op \in Lookups => last.ret.kind # "raise")
    /\ [](hv_is_unlocked => cached_mappings[1] = SetupMapping)
    /\ []((last.op = "resolve" /\ ~hv_is_unlocked) => last.ret = RetNone)
    /\ []((last.op = "resolve" /\ hv_is_unlocked)
              => IF last.data[1] \in Pseudoniems(hv_setup[1].records)
                 THEN last.ret = RetValue("record", SetupMapping[last.data[1]])
                 ELSE last.ret = RetNone)
    /\ [](last.op = "resolve_batch"
              => /\ last.ret.kind = "dict"
                 /\ LET items == last.ret.val[1].items
                    IN  IF hv_is_unlocked
                        THEN /\ DOMAIN items = IdsOf(last.data[1]) \cap DOMAIN SetupMapping
                             /\ \A i \in DOMAIN items : items[i] = SetupMapping[i]
                        ELSE items = EmptyMapping)
    /\ [](last.op = "get_all_mappings"
              => /\ last.ret.kind = "dict"
                 /\ last.ret.val[1].items = IF hv_is_unlocked THEN SetupMapping
                                            ELSE EmptyMapping)
    /\ [][last'.op \in Lookups \cup {"mutate_result"}
              => UNCHANGED <<cached_mappings, mapping_file, setup_flag_file,
                             keyFiles, cache_file, jwt_file>>]_vars

\* C22 witness: with the vault unlocked on a mapping that holds an entry,
\* the caller has added an entry to the dict get_all_mappings returned and
\* the cache does not hold it.
C22_Witness ==
    /\ last.op = "mutate_result"
    /\ hv_is_unlocked /\ DOMAIN cached_mappings[1] # {}
    /\ last.data[1] \in DOMAIN last.ret.val[1].items
    /\ last.data[1] \notin DOMAIN cached_mappings[1]

\* C23: clear, whatever the state, removes the store and the marker and
\* drops the in-memory mapping; from then until the next setup
\* is_setup_complete and is_unlocked are false, every unlock returns False,
\* resolve returns None and resolve_batch and get_all_mappings return an
\* empty dict.
C23_ClearRemovesAll ==
    /\ [][last'.op = "hv_clear"
              => /\ mapping_file' = None /\ setup_flag_file' = None
                 /\ cached_mappings' = None]_vars
    /\ [](hv_setup = None
              => /\ ~is_setup_complete /\ ~hv_is_unlocked
                 /\ mapping_file = None /\ setup_flag_file = None
                 /\ last.op = "hv_unlock" => IsBool(last.ret, FALSE)
                 /\ last.op = "resolve" => last.ret = RetNone
                 /\ last.op \in {"resolve_batch", "get_all_mappings"}
                        => (last.ret.kind = "dict" /\ last.ret.val[1].items = EmptyMapping))

\* C23 witness: clear has run on a vault that was set up and unlocked.
C23_Witness ==
    /\ last.op = "hv_clear"
    /\ last.data[1].is_setup_complete /\ last.data[1].is_unlocked
    /\ ~is_setup_complete /\ ~hv_is_unlocked

\* C24: once setup(records, P) has run, also after a lock or a restart of
\* the process, unlock(P) returns True and resolve, resolve_batch and
\* get_all_mappings then return for every argument what they returned right
\* after setup; unlock with another passphrase returns False.
C24_MigrationRoundTrip ==
    (last.op = "hv_unlock" /\ hv_setup # None)
        => IF last.arg = hv_setup[1].passphrase
           THEN /\ IsBool(last.ret, TRUE)
                /\ hv_is_unlocked
                /\ \A id \in PseudoIds : resolve(id) = hv_setup[1].resolved[id]
                /\ \A ids \in IdLists : resolve_batch(ids) = hv_setup[1].batches[ids]
                /\ get_all_mappings = hv_setup[1].all
           ELSE IsBool(last.ret, FALSE)

\* C24 witness: unlock has returned True on a locked vault whose mapping
\* holds an entry for one id and none for another.
C24_Witness ==
    /\ last.op = "hv_unlock" /\ IsBool(last.ret, TRUE)
    /\ ~last.data[1].is_unlocked
    /\ hv_setup # None
    /\ \E id \in PseudoIds : hv_setup[1].resolved[id] # RetNone
    /\ \E id \in PseudoIds : hv_setup[1].resolved[id] = RetNone

\* The call of derive_key just before the last one.
DeriveBefore == last.data[1].before[1]

\* C25: derive_key with a salt supplied returns a 256-bit key and that salt,
\* and a second call with the same passphrase and salt has the same outcome
\* as the first; with the salt omitted it returns a key with a newly drawn
\* 16-byte salt, and a call with that passphrase and the returned salt
\* returns the same key.
C25_DeriveDeterministic ==
    last.op = "derive_key"
        => LET salt == last.data[1].salt
               before == last.data[1].before
           IN  /\ (salt # None /\ Argon2SaltOk(salt[1]))
                      => /\ last.ret.kind = "derived"
                         /\ last.ret.val[1].salt = salt[1]
                         /\ last.ret.val[1].key.len = HASH_LEN
               /\ (salt # None /\ before # None /\ DeriveBefore.arg = last.arg
                       /\ DeriveBefore.salt = salt)
                      => last.ret = DeriveBefore.ret
               /\ salt = None
                      => /\ last.ret.kind = "derived"
                         /\ last.ret.val[1].salt \in Salts
                         /\ last.ret.val[1].key.len = HASH_LEN
               /\ (salt # None /\ before # None /\ DeriveBefore.arg = last.arg
                       /\ DeriveBefore.salt = None /\ DeriveBefore.ret.kind = "derived"
                       /\ salt = Some(DeriveBefore.ret.val[1].salt))
                      => last.ret = DeriveBefore.ret

\* C25 witness: derive_key has been called twice in a row with
\* "CorrectHorseBatteryStaple" and the all-zero 16-byte salt.
C25_Witness ==
    /\ last.op = "derive_key" /\ last.arg = "CorrectHorseBatteryStaple"
    /\ last.data[1].salt = Some(RandomBytes(SALT_LEN, 0))
    /\ last.data[1].before # None
    /\ DeriveBefore.arg = last.arg /\ DeriveBefore.salt = last.data[1].salt
    /\ last.ret.kind = "derived" /\ last.ret = DeriveBefore.ret

\* The raw bytes of the private keys, the keys derived from passphrases and
\* the JSON texts of the mappings.
PlainPrivateKeys == {PrivateBytesRaw(k) : k \in PrivateKeys}
PassphraseKeys ==
    {Argon2id(p, s) : p \in RequestPassphrases, s \in Salts}
    \cup {Pbkdf2Hmac(p, s) : p \in RequestPassphrases, s \in Salts}
PlainMappings ==
    {JsonDumps(m) : m \in Mappings} \cup {JsonDumps(IndexRecords(r)) : r \in RecordLists}
\* ct is an intact AES-GCM ciphertext of one of texts under a
\* passphrase-derived key.
SealedUnderPassphrase(ct, texts) ==
    ct.intact /\ ct.key \in PassphraseKeys /\ ct.pt \in texts

\* x, read from a file without any key, is the raw bytes of a private key,
\* a passphrase-derived key or the text of a mapping.
InClear(x) == x \in PlainPrivateKeys \/ x \in PassphraseKeys \/ x \in PlainMappings
\* The decoded members of a persisted JSON record, None when it is absent.
NoMemberInClear(file, names) ==
    file # None => \A n \in names : ~InClear(B64Decode(JsonLoads(file[1])[n]))

\* C26: in every reachable state no persisted artifact (private_key.enc,
\* public_key.pem, the cache file, the JWT file, the legacy store, the
\* completion marker) holds the raw private key, a passphrase-derived key or
\* the text of a mapping in the clear: the private key and the mappings are
\* in the files only as AES-GCM ciphertext under a passphrase-derived key.
C26_NoPlaintextPersisted ==
    /\ NoMemberInClear(private_key_file, {"salt", "nonce", "ciphertext"})
    /\ NoMemberInClear(cache_file, {"nonce", "ciphertext"})
    /\ NoMemberInClear(jwt_file, {"nonce", "ciphertext"})
    /\ public_key_file # None => ~InClear(public_key_file[1])
    /\ mapping_file # None
           => /\ ~InClear(mapping_file[1].salt) /\ ~InClear(mapping_file[1].nonce)
              /\ ~InClear(mapping_file[1].rest[1])
    /\ setup_flag_file # None => ~InClear(JsonLoads(setup_flag_file[1]))
    /\ private_key_file # None
           => SealedUnderPassphrase(B64Decode(JsonLoads(private_key_file[1]).ciphertext),
                                    PlainPrivateKeys)
    /\ cache_file # None
           => SealedUnderPassphrase(B64Decode(JsonLoads(cache_file[1]).ciphertext),
                                    PlainMappings)
    /\ mapping_file # None
           => SealedUnderPassphrase(mapping_file[1].rest[1], PlainMappings)

\* C26 witness: the key files, the cache file and the JWT file are all
\* persisted, with the keys unlocked and a mapping in memory.
C26_Witness ==
    /\ private_key_file # None /\ public_key_file # None
    /\ cache_file # None /\ jwt_file # None
    /\ is_unlocked /\ passphrase_key # None
    /\ current_mappings # EmptyMapping

\* C27 (as claimed): however the process ends, the KeyManager is locked, the
\* in-memory mapping is empty and no passphrase-derived key is held by the
\* application state when it ends.
C27_ShutdownClears ==
    exited # None
        => /\ ~is_unlocked
           /\ current_mappings = EmptyMapping
           /\ passphrase_key = None

\* C28 (as claimed): once a lock request or a logout request has answered,
\* the private key slot is empty, the in-memory mapping is empty and neither
\* the application state nor the AuthManager holds a passphrase-derived key.
C28_LockLogoutClear ==
    last.op \in {"lock_keys", "api_logout"}
        => /\ unlocked_private_key = None
           /\ current_mappings = EmptyMapping
           /\ passphrase_key = None
           /\ encryption_key = None

\* The last operation met the storage failure named in its data.
WriteFailed(op) ==
    last.op = op /\ last.data # <<>> /\ DOMAIN last.data[1] = {"write_fails"}
ReadFailed(op) ==
    last.op = op /\ last.data # <<>> /\ DOMAIN last.data[1] = {"read_fails"}

\* C29 (as claimed): when a write fails, generate_keypair raises, returns no
\* public key and leaves the private key slot as it was; setup raises,
\* caches nothing and, when it is the store that could not be written,
\* writes no marker; an upload request whose cache write failed does not
\* answer 200; and a read that fails in get_stored_salt is raised, not
\* answered with a value.
C29_StorageFailuresPropagate ==
    /\ [][(WriteFailed("generate_keypair"))'
              => (last'.ret.kind = "raise" /\ UNCHANGED unlocked_private_key)]_vars
    /\ [][(WriteFailed("setup"))'
              => /\ last'.ret.kind = "raise"
                 /\ UNCHANGED cached_mappings
                 /\ last'.data[1].write_fails = "mapping_path"
                        => UNCHANGED setup_flag_file]_vars
    /\ [](WriteFailed("upload_file")
              => (last.ret.kind = "http" /\ last.ret.val[1] # 200))
    /\ [](ReadFailed("get_stored_salt") => last.ret.kind = "raise")

\* The key some passphrase opens the persisted private-key record to, None
\* when no passphrase opens it.
StoredPrivateKey ==
    IF \E p \in Passphrases : TryUnlock(private_key_file[1], p).ok
    THEN Some(TryUnlock(private_key_file[1],
                        CHOOSE p \in Passphrases : TryUnlock(private_key_file[1], p).ok).key)
    ELSE None

\* C30 (as claimed): after a crash inside generate_keypair and the restart,
\* both key files are present as generate_keypair meant to write them or
\* has_keys is false, and whenever has_keys is true the public key file is
\* the public key of the private key in the record; after a crash inside
\* setup, the store and the marker are present as setup meant to write them
\* or is_setup_complete is false.
C30_CrashLeavesAllOrNothing ==
    /\ (crashed # None /\ crashed[1].op = "generate_keypair")
           => /\ \/ /\ public_key_file = Some(crashed[1].public_key_pem)
                    /\ private_key_file = Some(crashed[1].text)
                 \/ ~has_keys
              /\ has_keys
                     => /\ StoredPrivateKey # None
                        /\ public_key_file
                               = Some(PublicBytesPem(PublicKey(StoredPrivateKey[1])))
    /\ (crashed # None /\ crashed[1].op = "setup")
           => \/ /\ mapping_file = Some(crashed[1].store)
                 /\ setup_flag_file = Some(crashed[1].marker)
              \/ ~is_setup_complete

\* The key the stored private-key record is encrypted under.
StoredRecordKey == B64Decode(JsonLoads(private_key_file[1]).ciphertext).key

\* The key slot, the passphrase keys and the key files after a whole
\* generate or unlock: the slot holds the private half of the stored public
\* key, and both passphrase keys are the key of the stored record.
WholeUnlocked ==
    /\ has_keys /\ is_unlocked
    /\ public_key_file = Some(PublicBytesPem(PublicKey(unlocked_private_key[1])))
    /\ passphrase_key = Some(StoredRecordKey)
    /\ encryption_key = passphrase_key

DispatchAnother ==
    \/ \E r \in 1..MaxRequests, k \in KeyRequests : ReceiveKeyRequest(r, k.op, k.passphrase)
    \/ \E r \in 1..MaxRequests : KeyRequestReject(r)
    \/ \E r \in 1..MaxRequests : KeyRequestDerive(r)
    \/ \E r \in 1..MaxRequests, ok \in BOOLEAN : KeyRequestRegistered(r, ok)
    \/ deriving = None /\ lock_keys
    \/ deriving = None /\ api_login(TRUE)

\* C33: while the passphrase derivation of a generate or unlock request is
\* under way, the event loop can begin or end the handling of another
\* request.
C33_DerivationDoesNotBlock == deriving # None => ENABLED DispatchAnother

\* C32: every encryption under a passphrase-derived key (the private key in
\* generate_keypair, LocalVaultCache.save, _save_jwt, the legacy store's
\* _save_encrypted) is made under a nonce that no earlier encryption under
\* the same key used and that was in no persisted record when it was made.
C32_NoncesFresh ==
    /\ \A i \in 1..Len(encryptions) : ~encryptions[i].reused
    /\ \A i, j \in 1..Len(encryptions) :
           (/\ i < j
            /\ encryptions[i].kdf = encryptions[j].kdf
            /\ encryptions[i].key = encryptions[j].key)
           => encryptions[i].nonce # encryptions[j].nonce

\* As many encryptions as a run makes were all made under one key, two of
\* them by LocalVaultCache.save overwriting the cache.
C32_Witness ==
    /\ Len(encryptions) = MaxEncryptions
    /\ \A i \in 1..Len(encryptions) : encryptions[i].key = encryptions[1].key
    /\ \E i, j \in 1..Len(encryptions) :
           i < j /\ encryptions[i].site = "save" /\ encryptions[j].site = "save"
    /\ cache_file # None

\* C34: a KeyManager whose files only its own operations write is unlocked
\* only when it has keys, and the private key it holds is the private half
\* of the stored public key; so the key an unlock obtains is the key whose
\* public part is in the public key store.
C34_UnlockedKeyMatchesStore ==
    is_unlocked =>
        /\ has_keys
        /\ public_key_file = Some(PublicBytesPem(PublicKey(unlocked_private_key[1])))

\* C35: in every state of the application, an unlocked KeyManager comes
\* with a passphrase key held by the application, so that an upload accepted
\* because the keys are unlocked is saved to the cache.
C35_UnlockedHasPassphraseKey == is_unlocked => passphrase_key # None

\* C36: with logout, lock and delete-all requests handled while an upload is
\* suspended, an upload that answers success leaves the cache holding
\* exactly the mapping in memory: the cache decrypts to it, or both are
\* empty after a delete-all.
C36_UploadSuccessPersisted ==
    (last.op = "upload_file" /\ last.ret = RetHttp(200, "Processed"))
    => IF cache_file = None THEN current_mappings = EmptyMapping
       ELSE \E k \in DerivedKeys : load(k) = Some(current_mappings)

\* The callers whose check is in flight.
InFlight == {c \in 1..MaxCallers : checks[c] # None}

\* C37: at most one update check is in flight; the in-progress flag is set
\* exactly while one is, so every way a check leaves resets it; and a call
\* made while a check is in flight starts none and returns the cached info,
\* or no-update when nothing is cached.
C37_OneUpdateCheck ==
    /\ Cardinality(InFlight) <= 1
    /\ update_checker = None => InFlight = {}
    /\ update_checker # None => (update_checker[1].check_in_progress <=> InFlight # {})
    /\ (last.op = "check_for_updates" /\ last.data[1].in_progress)
       => /\ checks[last.data[1].caller] = None
          /\ last.ret = RetValue("info", IF last.data[1].cached # None
                                         THEN last.data[1].cached[1] ELSE NoUpdate)

\* A second caller has been given the cached result of an earlier check
\* while the first caller's check is in the git fallback.
C37_Witness ==
    /\ last.op = "check_for_updates" /\ last.data[1].in_progress
    /\ last.data[1].cached # None /\ last.data[1].cached[1].update_available
    /\ \E c \in InFlight : c # last.data[1].caller /\ checks[c][1].pc = "git"
    /\ update_checker[1].check_in_progress

====
